---------------------------- MODULE Spec2Model ----------------------------
(***************************************************************************)
(* A model of pyhgtmap's tile selection and tile acquisition:              *)
(*   pyhgtmap/NASASRTMUtil.py  calc_bbox, intersect_tiles, area_needed,     *)
(*                             make_file_name_prefixes, SourcesPool,       *)
(*                             get_files                                   *)
(*   pyhgtmap/sources/srtm.py  SrtmIndex, SRTM                             *)
(*                                                                         *)
(* Python strings are sequences of one-character strings, so that split,   *)
(* slicing, padding and parsing are computed.  Python floats are fixed     *)
(* point numbers: the integer n stands for n / Scale.                      *)
(***************************************************************************)
EXTENDS Integers, Sequences, FiniteSets, TLC

VARIABLES
    args,       \* the arguments of the call under way (a record)
    ret,        \* what the last call returned or raised (a record)
    entries,    \* SrtmIndex._entries, per resolution
    indexFile,  \* the file SrtmIndex._index_file_name, per resolution
    manifest,   \* the tiles of the remote coverage map, per resolution
    client,     \* SRTM._client
    cache,      \* the tile files on disk: path -> payload
    net,        \* the requests sent and the index files opened so far, by kind
    session,    \* the httpx.Client objects created so far
    steps,      \* the calls made so far
    gf          \* get_files under way: its locals and the calls it made

vars == <<args, ret, entries, indexFile, manifest, client, cache, net,
          session, steps, gf>>

-----------------------------------------------------------------------------
(* Bounds of the model *)

\* coordinates of an area string range over -MaxHalf/2 .. MaxHalf/2 degrees
MaxHalf == 3

\* the tiles an index or a coverage map may name: longitudes 0 .. MaxTiles - 1
MaxTiles == 2

\* the calls made on one index or one source
MaxCalls == 3

\* the sources a caller of get_files lists
MaxSources == 2

\* the colon-separated fields of an area string
MaxFields == 5

\* the vertices of a ring given to intersect_tiles
MaxVertices == 3

\* the rings of the polygons given to area_needed
MaxRings == 2

\* workers that read the client of one source at the same time
MaxWorkers == 2

\* input files of one output file
MaxFiles == 2

\* the longitudes and latitudes of tiles: -MaxLon..MaxLon, -MaxLat..MaxLat
MaxLon == 180

MaxLat == 90

-----------------------------------------------------------------------------
(* Numbers and strings *)

\* float(value) is read to one decimal: n stands for n / Scale
Scale == 10

Abs(n) == IF n < 0 THEN -n ELSE n

Min(a, b) == IF a <= b THEN a ELSE b

Max(a, b) == IF a >= b THEN a ELSE b

\* Python's int(x) on a float: truncation towards zero
PyInt(n) == IF n >= 0 THEN n \div Scale ELSE -((-n) \div Scale)

\* Python's x % 1 == 0
IsWhole(n) == n % Scale = 0

Digits == <<"0", "1", "2", "3", "4", "5", "6", "7", "8", "9">>

DigitChars == {Digits[i] : i \in 1..10}

DigitVal(c) == (CHOOSE i \in 1..10 : Digits[i] = c) - 1

\* str(n) of a natural number
RECURSIVE NatStr(_)
NatStr(n) == IF n < 10 THEN <<Digits[n + 1]>>
             ELSE NatStr(n \div 10) \o <<Digits[(n % 10) + 1]>>

\* int(s) of a string of digits
RECURSIVE DigitsVal(_)
DigitsVal(s) == IF s = <<>> THEN 0
                ELSE DigitsVal(SubSeq(s, 1, Len(s) - 1)) * 10 + DigitVal(s[Len(s)])

IsDigits(s) == \A i \in 1..Len(s) : s[i] \in DigitChars

\* the decimal literal of n / Scale, as a caller writes it: "-1.5", "2", "0.5"
DecStr(n) ==
    (IF n < 0 THEN <<"-">> ELSE <<>>)
    \o NatStr(Abs(n) \div Scale)
    \o (IF Abs(n) % Scale = 0 THEN <<>> ELSE <<".">> \o NatStr(Abs(n) % Scale))

\* ":".join(fields)
RECURSIVE Join(_, _)
Join(fields, sep) ==
    IF fields = <<>> THEN <<>>
    ELSE IF Len(fields) = 1 THEN fields[1]
    ELSE fields[1] \o <<sep>> \o Join(Tail(fields), sep)

\* s.split(sep): always at least one field
RECURSIVE Split(_, _)
Split(s, sep) ==
    IF \A i \in 1..Len(s) : s[i] # sep THEN <<s>>
    ELSE LET k == CHOOSE i \in 1..Len(s) :
                     s[i] = sep /\ \A j \in 1..(i - 1) : s[j] # sep
         IN <<SubSeq(s, 1, k - 1)>> \o Split(SubSeq(s, k + 1, Len(s)), sep)

\* float(s) for a signed decimal literal with at most one decimal; every other
\* string of the alphabet used here raises ValueError
ParseFloat(s) ==
    LET signed == Len(s) > 0 /\ s[1] \in {"-", "+"}
        neg    == Len(s) > 0 /\ s[1] = "-"
        body   == IF signed THEN Tail(s) ELSE s
        dots   == {i \in 1..Len(body) : body[i] = "."}
        ip     == IF dots = {} THEN body
                  ELSE SubSeq(body, 1, (CHOOSE i \in dots : TRUE) - 1)
        fp     == IF dots = {} THEN <<>>
                  ELSE SubSeq(body, (CHOOSE i \in dots : TRUE) + 1, Len(body))
        ok     == /\ Cardinality(dots) <= 1
                  /\ IsDigits(ip) /\ IsDigits(fp)
                  /\ Len(ip) + Len(fp) > 0
                  /\ Len(fp) <= 1
        mag    == DigitsVal(ip) * Scale + (IF fp = <<>> THEN 0 ELSE DigitVal(fp[1]))
    IN IF ok THEN [ok |-> TRUE, val |-> IF neg THEN -mag ELSE mag]
       ELSE [ok |-> FALSE, val |-> 0]

-----------------------------------------------------------------------------
(* calc_bbox *)

Raise(e) == [exc |-> e]

Return(v) == [exc |-> "none", val |-> v]

Pending == [exc |-> "pending"]

Raised(r) == r.exc \notin {"none", "pending"}

Returned(r) == r.exc = "none"


\* a minimum coordinate cut towards zero
bbox_min_truncating(x) == PyInt(x)

\* lines 27-30 and 31-34: a minimum coordinate
bbox_min(x) == IF x < 0
               THEN (IF IsWhole(x) THEN PyInt(x) ELSE PyInt(x) - 1)
               ELSE PyInt(x)

\* a maximum coordinate moved outward even when it is whole
bbox_max_outward(x) == IF x < 0 THEN PyInt(x) ELSE PyInt(x) + 1

\* lines 35-38 and 39-42: a maximum coordinate
bbox_max(x) == IF x < 0
               THEN PyInt(x)
               ELSE (IF IsWhole(x) THEN PyInt(x) ELSE PyInt(x) + 1)

\* lines 23-26: the values zip() pairs with the four offsets, each parsed
\* and shifted; more than four fields are dropped by zip()
shifted_values(area, corrx, corry) ==
    LET fields == Split(area, ":")
        inc    == <<corrx, corry, corrx, corry>>
    IN [i \in 1..Min(Len(fields), 4) |->
           LET p == ParseFloat(fields[i])
           IN [ok |-> p.ok, val |-> p.val - inc[i]]]

calc_bbox(area, corrx, corry) ==
    LET v == shifted_values(area, corrx, corry)
    IN IF \E i \in 1..Len(v) : ~v[i].ok THEN Raise("ValueError")
       ELSE IF Len(v) # 4 THEN Raise("ValueError")
       ELSE Return(<<bbox_min(v[1].val), bbox_min(v[2].val),
                     bbox_max(v[3].val), bbox_max(v[4].val)>>)

-----------------------------------------------------------------------------
(* Tile identifiers *)

\* f"{n:0>{width}d}" of a natural number: padded, never cut
RECURSIVE PadZero(_, _)
PadZero(s, width) == IF Len(s) >= width THEN s ELSE PadZero(<<"0">> \o s, width)

\* longitude 0 taken for a western one
make_file_name_prefix_west_zero(lon, lat) ==
    LET lonSwitch == IF lon <= 0 THEN "W" ELSE "E"
        latSwitch == IF lat < 0 THEN "S" ELSE "N"
    IN <<latSwitch>> \o PadZero(NatStr(Abs(lat)), 2)
       \o <<lonSwitch>> \o PadZero(NatStr(Abs(lon)), 3)

make_file_name_prefix(lon, lat) ==
    LET lonSwitch == IF lon < 0 THEN "W" ELSE "E"
        latSwitch == IF lat < 0 THEN "S" ELSE "N"
    IN <<latSwitch>> \o PadZero(NatStr(Abs(lat)), 2)
       \o <<lonSwitch>> \o PadZero(NatStr(Abs(lon)), 3)

-----------------------------------------------------------------------------
(* The tiles a polygon's boundary crosses.  A coordinate is a fixed point  *)
(* number; a crossing point is the float num / den of two integers.        *)

\* int(num / den): truncation towards zero
PyIntOf(num, den) ==
    LET n == IF den > 0 THEN num ELSE -num
        d == IF den > 0 THEN den ELSE -den
    IN IF n >= 0 THEN n \div d ELSE -((-n) \div d)

IsNegativeOf(num, den) == (num < 0 /\ den > 0) \/ (num > 0 /\ den < 0)

IsWholeOf(num, den) == num % (IF den > 0 THEN den ELSE -den) = 0

\* get_low_int(num / den)
get_low_int_of(num, den) ==
    IF IsWholeOf(num, den) THEN PyIntOf(num, den)
    ELSE IF IsNegativeOf(num, den) THEN PyIntOf(num, den) - 1
    ELSE PyIntOf(num, den)

get_low_int(n) == get_low_int_of(n, Scale)

get_high_int(n) ==
    IF n < 0 \/ IsWhole(n) THEN PyInt(n) ELSE PyInt(n) + 1

\* range(a, b) as a sequence
SeqRange(a, b) == [i \in 1..(IF b > a THEN b - a ELSE 0) |-> a + i - 1]

SeqSet(q) == {q[i] : i \in 1..Len(q)}

\* get_range: the whole degrees from the lower end up to, not including, the
\* upper end
get_range(a, b) ==
    LET lo == Min(a, b)
        hi == Max(a, b)
    IN SeqSet(SeqRange(get_high_int(lo), get_high_int(hi)))

\* lines 81-104: the cells one edge adds, from (x_last, y_last) to (x, y)
edge_secs(x_last, y_last, x, y) ==
    LET dx == x - x_last
        dy == y - y_last
        \* get_low_int(s * X + o) and get_low_int((Y - o) / s)
        YAt(X) == get_low_int_of(y_last * dx + dy * (X * Scale - x_last), dx * Scale)
        XAt(Y) == get_low_int_of(x_last * dy + dx * (Y * Scale - y_last), dy * Scale)
    IN {<<get_low_int(x), get_low_int(y)>>}
       \cup
       (IF dx = 0
        THEN {<<get_low_int(x), get_low_int(Y * Scale)>> : Y \in get_range(y, y_last)}
        ELSE IF dy = 0
        THEN {<<get_low_int(X * Scale), get_low_int(y)>> : X \in get_range(x, x_last)}
        ELSE UNION {{<<X - 1, YAt(X)>>, <<X, YAt(X)>>} : X \in get_range(x, x_last)}
             \cup
             UNION {{<<XAt(Y), Y - 1>>, <<XAt(Y), Y>>} : Y \in get_range(y, y_last)})

NoPolygons == [none |-> TRUE]

PolygonsOf(rings) == [none |-> FALSE, rings |-> rings]

\* `not polygons`
NotPolygons(polygons) == polygons.none \/ polygons.rings = <<>>

\* lines 73-105: the cells of every edge of every ring
intersect_secs(polygons, corrx, corry) ==
    UNION {UNION {edge_secs(polygons.rings[p][i - 1][1] - corrx,
                            polygons.rings[p][i - 1][2] - corry,
                            polygons.rings[p][i][1] - corrx,
                            polygons.rings[p][i][2] - corry) :
                     i \in 2..Len(polygons.rings[p])} :
              p \in 1..Len(polygons.rings)}

\* the list is built from a set: its order is not used
intersect_tiles(polygons, corrx, corry) ==
    IF NotPolygons(polygons) THEN {}
    ELSE {make_file_name_prefix(c[1], c[2]) :
              c \in intersect_secs(polygons, corrx, corry)}

-----------------------------------------------------------------------------
(* area_needed and make_file_name_prefixes *)

\* matplotlib's Path.contains_points for one point: the crossings test over
\* the ring closed from its last vertex to its first
contains_point(ring, tx, ty) ==
    LET n == Len(ring)
        Crosses(i) ==
            LET v0 == ring[i]
                v1 == ring[(i % n) + 1]
                yflag0 == v0[2] >= ty
                yflag1 == v1[2] >= ty
            IN /\ yflag0 # yflag1
               /\ (((v1[2] - ty) * (v0[1] - v1[1]) >= (v1[1] - tx) * (v0[2] - v1[2]))
                      = yflag1)
    IN Cardinality({i \in 1..n : Crosses(i)}) % 2 = 1

\* lines 147-150: for each corner, the number of rings it is inside
corners_inside(lat, lon, polygons, corrx, corry) ==
    LET min_lat == lat * Scale + corry
        max_lat == min_lat + Scale
        min_lon == lon * Scale + corrx
        max_lon == min_lon + Scale
        points == <<<<min_lon, min_lat>>, <<min_lon, max_lat>>,
                    <<max_lon, min_lat>>, <<max_lon, max_lat>>>>
    IN [k \in 1..4 |->
           Cardinality({p \in 1..Len(polygons.rings) :
               contains_point(polygons.rings[p], points[k][1], points[k][2])})]

\* no tile is taken for the whole bounding box
tile_is_bbox_never(lat, lon, bbox, corrx, corry) == FALSE

\* lines 135-140: the tile is the whole bounding box
tile_is_bbox(lat, lon, bbox, corrx, corry) ==
    /\ lon * Scale + corrx = bbox[1] * Scale + corrx
    /\ lat * Scale + corry = bbox[2] * Scale + corry
    /\ lon * Scale + corrx + Scale = bbox[3] * Scale + corrx
    /\ lat * Scale + corry + Scale = bbox[4] * Scale + corry

\* a tile with some corners inside is taken without a later check
area_needed_mixed_unchecked(lat, lon, bbox, polygons, corrx, corry) ==
    IF polygons.none THEN <<TRUE, FALSE>>
    ELSE IF tile_is_bbox(lat, lon, bbox, corrx, corry) THEN <<TRUE, TRUE>>
    ELSE LET inside == corners_inside(lat, lon, polygons, corrx, corry)
         IN IF \E k \in 1..4 : inside[k] # 0 THEN <<TRUE, FALSE>>
            ELSE <<FALSE, FALSE>>

\* area_needed: <<needed, check_poly>>
area_needed(lat, lon, bbox, polygons, corrx, corry) ==
    IF polygons.none THEN <<TRUE, FALSE>>
    ELSE IF tile_is_bbox(lat, lon, bbox, corrx, corry) THEN <<TRUE, TRUE>>
    ELSE LET inside == corners_inside(lat, lon, polygons, corrx, corry)
         IN IF \A k \in 1..4 : inside[k] # 0 THEN <<TRUE, FALSE>>
            ELSE IF ~(\E k \in 1..4 : inside[k] # 0) THEN <<FALSE, FALSE>>
            ELSE <<TRUE, TRUE>>

\* a box over the antimeridian taken for an empty one
lon_range_unwrapped(min_lon, max_lon) == SeqRange(min_lon, max_lon)

\* a box over the antimeridian going up to 180 degrees east inclusive
lon_range_closed(min_lon, max_lon) ==
    IF min_lon > max_lon
    THEN SeqRange(min_lon, 181) \o SeqRange(-180, max_lon)
    ELSE SeqRange(min_lon, max_lon)

\* lines 192-196
lon_range(min_lon, max_lon) ==
    IF min_lon > max_lon
    THEN SeqRange(min_lon, 180) \o SeqRange(-180, max_lon)
    ELSE SeqRange(min_lon, max_lon)

\* lines 198-199: the cells in the order of the two loops
bbox_cells(bbox) ==
    LET lons == lon_range(bbox[1], bbox[3])
        lats == SeqRange(bbox[2], bbox[4])
        nlat == Len(lats)
    IN [k \in 1..(Len(lons) * nlat) |->
           <<lons[((k - 1) \div nlat) + 1], lats[((k - 1) % nlat) + 1]>>]

\* every cell is decided by area_needed
cell_prefixes_by_corners(lon, lat, intersect_areas, bbox, polygons, corrx, corry) ==
    LET file_name_prefix == make_file_name_prefix(lon, lat)
        needed == area_needed(lat, lon, bbox, polygons, corrx, corry)
    IN IF needed[1] THEN <<<<file_name_prefix, needed[2]>>>> ELSE <<>>

\* lines 200-207: what one cell appends to the prefixes
cell_prefixes(lon, lat, intersect_areas, bbox, polygons, corrx, corry) ==
    LET file_name_prefix == make_file_name_prefix(lon, lat)
    IN IF file_name_prefix \in intersect_areas
       THEN <<<<file_name_prefix, TRUE>>>>
       ELSE LET needed == area_needed(lat, lon, bbox, polygons, corrx, corry)
            IN IF needed[1] THEN <<<<file_name_prefix, needed[2]>>>> ELSE <<>>

\* str.lower() of a tile identifier
LowerChar(c) == CASE c = "N" -> "n" [] c = "S" -> "s" [] c = "E" -> "e"
                  [] c = "W" -> "w" [] c = "R" -> "r" [] c = "T" -> "t"
                  [] c = "M" -> "m" [] OTHER -> c

Lower(s) == [i \in 1..Len(s) |-> LowerChar(s[i])]

RECURSIVE cells_prefixes(_, _, _, _, _, _)
cells_prefixes(cells, intersect_areas, bbox, polygons, corrx, corry) ==
    IF cells = <<>> THEN <<>>
    ELSE IF Len(cells) = 1
    THEN cell_prefixes(cells[1][1], cells[1][2], intersect_areas, bbox, polygons,
                       corrx, corry)
    ELSE LET half == Len(cells) \div 2
         IN cells_prefixes(SubSeq(cells, 1, half), intersect_areas, bbox,
                           polygons, corrx, corry)
            \o cells_prefixes(SubSeq(cells, half + 1, Len(cells)), intersect_areas,
                              bbox, polygons, corrx, corry)

make_file_name_prefixes(bbox, polygons, corrx, corry, lowercase) ==
    LET intersect_areas == intersect_tiles(polygons, corrx, corry)
        prefixes == cells_prefixes(bbox_cells(bbox), intersect_areas, bbox,
                                   polygons, corrx, corry)
    IN IF lowercase
       THEN [i \in 1..Len(prefixes) |-> <<Lower(prefixes[i][1]), prefixes[i][2]>>]
       ELSE prefixes

-----------------------------------------------------------------------------
(* The state of one SRTM source and of what it talks to, as one record.    *)
(* Every method below maps such a record to [w |-> the record after the    *)
(* call, r |-> what the call returned or raised].                          *)

\* the keys of BASE_URLS, the resolutions SRTM holds an index for
Resolutions == {1, 3}

World == [entries |-> entries, indexFile |-> indexFile, manifest |-> manifest,
          client |-> client, cache |-> cache, net |-> net, session |-> session]

Out(w, r) == [w |-> w, r |-> r]

NoFile == [exists |-> FALSE]

FileOf(text) == [exists |-> TRUE, text |-> text]

\* the characters that occur, in code point order
Alphabet == <<"\n", " ", "#", ",", ".", "0", "1", "2", "3", "4", "5", "6", "7",
              "8", "9", "=", "E", "I", "N", "O", "R", "S", "T", "V", "W",
              "d", "e", "f", "i", "l", "n", "v", "x">>

Ord(c) == CHOOSE i \in 1..Len(Alphabet) : Alphabet[i] = c

\* a < b for Python strings
RECURSIVE StrLess(_, _)
StrLess(a, b) ==
    IF b = <<>> THEN FALSE
    ELSE IF a = <<>> THEN TRUE
    ELSE IF a[1] # b[1] THEN Ord(a[1]) < Ord(b[1])
    ELSE StrLess(Tail(a), Tail(b))

\* sorted(S) of a set of strings
RECURSIVE Sorted(_)
Sorted(S) ==
    IF S = {} THEN <<>>
    ELSE LET m == CHOOSE x \in S : \A y \in S \ {x} : StrLess(x, y)
         IN <<m>> \o Sorted(S \ {m})

\* the lines a text file yields when iterated, without their line ends
FileLines(text) ==
    IF text = <<>> THEN <<>>
    ELSE IF text[Len(text)] = "\n" THEN Split(SubSeq(text, 1, Len(text) - 1), "\n")
    ELSE Split(text, "\n")

\* f"# SRTM{resolution}v3.0 index file, VERSION=2"
IndexHeader(res) ==
    <<"#", " ", "S", "R", "T", "M">> \o NatStr(res)
    \o <<"v", "3", ".", "0", " ", "i", "n", "d", "e", "x", " ", "f", "i", "l",
         "e", ",", " ", "V", "E", "R", "S", "I", "O", "N", "=", "2">>

\* what save() writes for a set of entries
IndexText(res, E) == IndexHeader(res) \o <<"\n">> \o Join(Sorted(E), "\n") \o <<"\n">>

\* s.strip()
RECURSIVE Strip(_)
Strip(s) ==
    IF s = <<>> THEN s
    ELSE IF s[1] \in {" ", "\n"} THEN Strip(Tail(s))
    ELSE IF s[Len(s)] \in {" ", "\n"} THEN Strip(SubSeq(s, 1, Len(s) - 1))
    ELSE s

\* SrtmIndex.load
load(w, res) ==
    IF ~w.indexFile[res].exists THEN Out(w, Raise("FileNotFoundError"))
    ELSE LET lines == FileLines(w.indexFile[res].text)
             added == {Strip(lines[i]) : i \in {j \in 1..Len(lines) :
                                            lines[j] = <<>> \/ lines[j][1] # "#"}}
         IN Out([w EXCEPT !.entries[res] = @ \cup added,
                          !.net.indexRead = @ + 1],
                Return(<<>>))

\* SrtmIndex.save
save(w, res) ==
    Out([w EXCEPT !.indexFile[res] = FileOf(IndexText(res, w.entries[res]))],
        Return(<<>>))

\* lines 153-157: the entries are replaced by the tiles of the coverage map
rebuilt_entries(old, covered) == covered


\* init_from_web without its save()
init_from_web_unsaved(w, res) ==
    Out([w EXCEPT !.net.manifestGet = @ + 1,
                  !.entries[res] = rebuilt_entries(@, w.manifest[res])],
        Return(<<>>))

\* SrtmIndex.init_from_web
init_from_web(w, res) ==
    LET fetched == [w EXCEPT !.net.manifestGet = @ + 1,
                             !.entries[res] = rebuilt_entries(@, w.manifest[res])]
    IN save(fetched, res)

\* lines 164-169: whether the entries property initialises the index
needs_init(E) == E = {}


\* the property rebuilding the index from the web at every access
entries_property_rebuilding(w, res) ==
    LET i == init_from_web(w, res)
    IN Out(i.w, Return(i.w.entries[res]))

\* the property SrtmIndex.entries
entries_property(w, res) ==
    IF needs_init(w.entries[res])
    THEN LET l == load(w, res)
         IN IF l.r.exc = "FileNotFoundError"
            THEN LET i == init_from_web(w, res)
                 IN Out(i.w, Return(i.w.entries[res]))
            ELSE Out(l.w, Return(l.w.entries[res]))
    ELSE Out(w, Return(w.entries[res]))

-----------------------------------------------------------------------------
(* SRTM: the session and the download of one tile.  env is what the remote *)
(* servers answer during the call:                                         *)
(*   env.page  the title of the page GET https://ers.cr.usgs.gov/ ends on  *)
(*   env.post  the status of the login POST                                *)
(*   env.dl    the answer to the tile's GET                                *)
(*   env.write what writing the tile file comes to                         *)

NoClient == [none |-> TRUE]

\* an httpx.Client: which object it is, and whether its cookies are those of
\* a completed login
ClientOf(id, loggedIn) == [none |-> FALSE, id |-> id, loggedIn |-> loggedIn]

\* the login page, or any other page
Pages == {"login", "other"}

PostAnswers == {"ok", "httperror"}

\* a tile payload, the JSON error body the tests name, another body with
\* another content type, an HTTP error status
DlAnswers == {"tiff", "invalid_scene_json", "other_body", "httperror"}

\* the file is written whole, or the write fails after the file was opened
WriteAnswers == {"ok", "oserror"}


\* the title of the page is not looked at
is_login_page_unchecked(page) == TRUE

\* line 217: the page is the login page
is_login_page(page) == page = "login"

\* SRTM.init_client
init_client(w, env) ==
    LET id      == w.session + 1
        created == [w EXCEPT !.session = id,
                             !.client = ClientOf(id, FALSE),
                             !.net.loginGet = @ + 1]
        posted  == [created EXCEPT !.net.loginPost = @ + 1]
    IN IF ~is_login_page(env.page)
       THEN Out(created, Raise("ValueError: Expected login page"))
       ELSE IF env.post # "ok"
       THEN Out(posted, Raise("HTTPStatusError"))
       ELSE Out([posted EXCEPT !.client = ClientOf(id, TRUE)], Return(<<>>))


\* the client is not kept
needs_client_always(c) == TRUE

\* line 235: whether the client property logs in
needs_client(c) == c.none

\* the property SRTM.client
client_property(w, env) ==
    LET i == IF needs_client(w.client) THEN init_client(w, env)
             ELSE Out(w, Return(<<>>))
    IN IF Raised(i.r) THEN i
       ELSE IF i.w.client.none
       THEN Out(i.w, Raise("ValueError: Can't initialize SRTM client"))
       ELSE Out(i.w, Return(i.w.client))

\* get_url_for_tile: the URL names the resolution and the tile
get_url_for_tile(resolution, area) == [resolution |-> resolution, area |-> area]

\* the bytes the server holds for a URL
Payload(url) == [tiff |-> url, whole |-> TRUE]

\* lines 256-259: the file that open(mode="wb") made and that write() did not
\* fill
Truncated(url) == [tiff |-> url, whole |-> FALSE]

\* the tile files with one more file written
Written(files, name, bytes) ==
    [p \in DOMAIN files \cup {name} |-> IF p = name THEN bytes ELSE files[p]]

\* lines 252-255: what a fetched answer is taken for
answer_check(dl) ==
    IF dl = "tiff" THEN Return(<<>>)
    ELSE Raise("ValueError: Unexpected content type")


\* the index is not consulted
in_index_ignored(area, E) == TRUE

\* line 247: whether the index lets the tile be fetched
in_index(area, E) == area \in E

\* SRTM.download_missing_file
download_missing_file(w, area, resolution, output_file_name, env) ==
    LET e == entries_property(w, resolution)
    IN IF in_index(area, e.r.val)
       THEN LET url == get_url_for_tile(resolution, area)
                c   == client_property(e.w, env)
            IN IF Raised(c.r) THEN c
               ELSE LET got == [c.w EXCEPT
                                   !.net.download = @ + 1,
                                   !.net.dlSessions = @ \cup {c.r.val.id},
                                   !.net.dlUnauth =
                                       @ + (IF c.r.val.loggedIn THEN 0 ELSE 1)]
                    IN IF env.dl = "httperror"
                       THEN Out(got, Raise("HTTPStatusError"))
                       ELSE IF Raised(answer_check(env.dl))
                       THEN Out(got, answer_check(env.dl))
                       ELSE IF env.write # "ok"
                       THEN Out([got EXCEPT !.cache =
                                    Written(@, output_file_name, Truncated(url))],
                                Raise("OSError"))
                       ELSE Out([got EXCEPT !.cache =
                                    Written(@, output_file_name, Payload(url))],
                                Return(<<>>))
       ELSE Out(e.w, Raise("FileNotFoundError"))

-----------------------------------------------------------------------------
(* What every specification starts from and leaves alone *)

NoNet == [loginGet |-> 0, loginPost |-> 0, manifestGet |-> 0, download |-> 0,
          dlSessions |-> {}, dlUnauth |-> 0, indexRead |-> 0]

NoCache == [p \in {} |-> 0]

Tiles == {make_file_name_prefix(lon, 0) : lon \in 0..(MaxTiles - 1)}

\* an index file is absent or was saved by an earlier run
IndexFiles(res) == {NoFile} \cup {FileOf(IndexText(res, S)) : S \in SUBSET Tiles}

FreshSource ==
    /\ entries = [r \in Resolutions |-> {}]
    /\ client = NoClient
    /\ cache = NoCache
    /\ net = NoNet
    /\ session = 0
    /\ steps = 0

\* one resolution's index file and coverage map are any; the other's file is
\* absent and its map covers every tile
AnyIndexFiles ==
    \E r0 \in Resolutions :
        /\ indexFile \in {f \in [Resolutions -> UNION {IndexFiles(r) : r \in Resolutions}] :
                             /\ f[r0] \in IndexFiles(r0)
                             /\ \A r \in Resolutions \ {r0} : f[r] = NoFile}
        /\ manifest \in {m \in [Resolutions -> SUBSET Tiles] :
                             \A r \in Resolutions \ {r0} : m[r] = Tiles}

NoSource ==
    /\ FreshSource
    /\ indexFile = [r \in Resolutions |-> NoFile]
    /\ manifest = [r \in Resolutions |-> Tiles]

SetWorld(w) ==
    /\ entries' = w.entries
    /\ indexFile' = w.indexFile
    /\ manifest' = w.manifest
    /\ client' = w.client
    /\ cache' = w.cache
    /\ net' = w.net
    /\ session' = w.session

sourceVars == <<entries, indexFile, manifest, client, cache, net, session>>

\* get_files was not called
NoGetFiles == [status |-> "idle", prefixes |-> <<>>, i |-> 0, j |-> 0,
               files |-> <<>>, calls |-> <<>>, call |-> [op |-> "none"]]

\* a call: its arguments, its effect, its result
Call(a, out) ==
    /\ steps < MaxCalls
    /\ steps' = steps + 1
    /\ args' = a
    /\ ret' = out.r
    /\ SetWorld(out.w)
    /\ UNCHANGED gf

-----------------------------------------------------------------------------
(* SpecBBox: calc_bbox on area strings *)

CorrVals == {-Scale, 0, Scale \div 2}

HalfVals == {k * (Scale \div 2) : k \in (-MaxHalf)..MaxHalf}

AreaString(box) == Join(<<DecStr(box[1]), DecStr(box[2]), DecStr(box[3]),
                          DecStr(box[4])>>, ":")

InitBBox ==
    /\ args \in {[op |-> "calc_bbox", box |-> b, area |-> AreaString(b),
                  corrx |-> cx, corry |-> cy] :
                    b \in HalfVals \X HalfVals \X HalfVals \X HalfVals,
                    cx \in CorrVals, cy \in CorrVals}
    /\ ret = Pending
    /\ NoSource
    /\ gf = NoGetFiles

CalcBbox ==
    /\ args.op = "calc_bbox"
    /\ ret = Pending
    /\ ret' = calc_bbox(args.area, args.corrx, args.corry)
    /\ UNCHANGED <<args, sourceVars, steps, gf>>

NextBBox == CalcBbox

SpecBBox == InitBBox /\ [][NextBBox]_vars

\* SpecBBoxFields: calc_bbox on strings of any number of fields, numbers or not
NumberFields == {DecStr(Scale), DecStr(-(Scale \div 2))}

FieldInputs == NumberFields \cup {<<"x">>, <<>>}

InitBBoxFields ==
    /\ args \in {[op |-> "calc_bbox", fields |-> f, area |-> Join(f, ":"),
                  corrx |-> cx, corry |-> cy] :
                    f \in UNION {[1..n -> FieldInputs] : n \in 1..MaxFields},
                    cx \in CorrVals, cy \in CorrVals}
    /\ ret = Pending
    /\ NoSource
    /\ gf = NoGetFiles

SpecBBoxFields == InitBBoxFields /\ [][NextBBox]_vars

-----------------------------------------------------------------------------
(* SpecPrefix: make_file_name_prefix on every tile of the globe *)

InitPrefix ==
    /\ args \in {[op |-> "make_file_name_prefix", lon |-> lon, lat |-> lat] :
                    lon \in (-MaxLon)..MaxLon, lat \in (-MaxLat)..MaxLat}
    /\ ret = Pending
    /\ NoSource
    /\ gf = NoGetFiles

MakeFileNamePrefix ==
    /\ args.op = "make_file_name_prefix"
    /\ ret = Pending
    /\ ret' = Return(make_file_name_prefix(args.lon, args.lat))
    /\ UNCHANGED <<args, sourceVars, steps, gf>>

NextPrefix == MakeFileNamePrefix

SpecPrefix == InitPrefix /\ [][NextPrefix]_vars

-----------------------------------------------------------------------------
(* SpecPrefixes: make_file_name_prefixes on boxes near the equator, at and *)
(* away from the antimeridian                                              *)

\* a rectangle from (-0.5, -0.5) to (1.5, 1.5), closed
BoxRing == <<<<-5, -5>>, <<15, -5>>, <<15, 15>>, <<-5, 15>>, <<-5, -5>>>>

\* a triangle inside the tile N00E000, closed
InnerRing == <<<<3, 3>>, <<7, 3>>, <<7, 7>>, <<3, 3>>>>

LonInputs == {-(MaxLon - 1), -(MaxLon - 2), 0, 2, MaxLon - 2, MaxLon - 1}

LatInputs == {-1, 0, 1}

InitPrefixes ==
    /\ args \in {[op |-> "make_file_name_prefixes", bbox |-> b, polygons |-> p,
                  corrx |-> 0, corry |-> 0, lowercase |-> lc] :
                    b \in LonInputs \X LatInputs \X LonInputs \X LatInputs,
                    p \in {NoPolygons, PolygonsOf(<<BoxRing>>),
                           PolygonsOf(<<InnerRing>>)},
                    lc \in BOOLEAN}
    /\ ret = Pending
    /\ NoSource
    /\ gf = NoGetFiles

MakeFileNamePrefixes ==
    /\ args.op = "make_file_name_prefixes"
    /\ ret = Pending
    /\ ret' = Return(make_file_name_prefixes(args.bbox, args.polygons, args.corrx,
                                             args.corry, args.lowercase))
    /\ UNCHANGED <<args, sourceVars, steps, gf>>

NextPrefixes == MakeFileNamePrefixes

SpecPrefixes == InitPrefixes /\ [][NextPrefixes]_vars

-----------------------------------------------------------------------------
(* SpecIntersect: intersect_tiles on one ring whose vertices lie inside    *)
(* tiles and on their borders                                              *)

VertexCoords == {0, 3, Scale, 17, 3 * Scale}

VertexInputs == VertexCoords \X VertexCoords

RingInputs == UNION {[1..n -> VertexInputs] : n \in 2..MaxVertices}

InitIntersect ==
    /\ args \in {[op |-> "intersect_tiles", polygons |-> PolygonsOf(<<r>>),
                  corrx |-> cx, corry |-> 0] :
                    r \in RingInputs, cx \in {0, Scale \div 2}}
    /\ ret = Pending
    /\ NoSource
    /\ gf = NoGetFiles

IntersectTiles ==
    /\ args.op = "intersect_tiles"
    /\ ret = Pending
    /\ ret' = Return(intersect_tiles(args.polygons, args.corrx, args.corry))
    /\ UNCHANGED <<args, sourceVars, steps, gf>>

NextIntersect == IntersectTiles

SpecIntersect == InitIntersect /\ [][NextIntersect]_vars

-----------------------------------------------------------------------------
(* SpecAreaNeeded: area_needed on the tiles (0, 0) and (1, 0) and polygons *)
(* of rectangles around, across, beside and along them                     *)

\* the ring of the rectangle from (x0, y0) to (x1, y1), closed
RectRing(x0, y0, x1, y1) ==
    <<<<x0, y0>>, <<x1, y0>>, <<x1, y1>>, <<x0, y1>>, <<x0, y0>>>>

RectCoords == {-5, 5, 25}

RectInputs ==
    {RectRing(c[1], c[2], c[3], c[4]) :
        c \in {d \in RectCoords \X RectCoords \X RectCoords \X RectCoords :
                  d[1] < d[3] /\ d[2] < d[4]}}

InitAreaNeeded ==
    /\ args \in {[op |-> "area_needed", lat |-> 0, lon |-> lon, bbox |-> b,
                  polygons |-> p, corrx |-> cx, corry |-> 0] :
                    lon \in {0, 1},
                    b \in {<<0, 0, 1, 1>>, <<0, 0, 2, 2>>},
                    p \in {NoPolygons}
                          \cup {PolygonsOf(r) :
                                   r \in UNION {[1..n -> RectInputs] :
                                                   n \in 0..MaxRings}},
                    cx \in {0, Scale \div 2}}
    /\ ret = Pending
    /\ NoSource
    /\ gf = NoGetFiles

AreaNeeded ==
    /\ args.op = "area_needed"
    /\ ret = Pending
    /\ ret' = Return(area_needed(args.lat, args.lon, args.bbox, args.polygons,
                                 args.corrx, args.corry))
    /\ UNCHANGED <<args, sourceVars, steps, gf>>

NextAreaNeeded == AreaNeeded

SpecAreaNeeded == InitAreaNeeded /\ [][NextAreaNeeded]_vars

-----------------------------------------------------------------------------
(* SpecIndex: the methods of the indexes, called in any order *)

NoArgs == [op |-> "none"]

InitIndex ==
    /\ args = NoArgs
    /\ ret = Pending
    /\ FreshSource
    /\ AnyIndexFiles
    /\ gf = NoGetFiles

Load == \E res \in Resolutions :
            Call([op |-> "load", resolution |-> res], load(World, res))

Save == \E res \in Resolutions :
            Call([op |-> "save", resolution |-> res], save(World, res))

InitFromWeb == \E res \in Resolutions :
                   Call([op |-> "init_from_web", resolution |-> res],
                        init_from_web(World, res))

Entries == \E res \in Resolutions :
               Call([op |-> "entries", resolution |-> res],
                    entries_property(World, res))

NextIndex == Load \/ Save \/ InitFromWeb \/ Entries

SpecIndex == InitIndex /\ [][NextIndex]_vars

-----------------------------------------------------------------------------
(* SpecSrtm: one SRTM source; its client is read and tiles are fetched *)

CachePath(area, resolution) == [resolution |-> resolution, area |-> area]

\* the index file of one resolution was saved by an earlier run, or it is
\* absent and the coverage map is any
SrtmIndexFiles ==
    /\ AnyIndexFiles
    /\ \A r \in Resolutions : indexFile[r].exists => manifest[r] = Tiles

InitSrtm ==
    /\ args = NoArgs
    /\ ret = Pending
    /\ FreshSource
    /\ SrtmIndexFiles
    /\ gf = NoGetFiles

\* the answers a call can come to read: a login is only tried without a
\* client, the login is only posted from the login page, and a tile is only
\* requested over a client; an answer that is not read is left at "unread"
LoginEnvs(c) ==
    IF ~c.none THEN {[page |-> "unread", post |-> "unread"]}
    ELSE {e \in [page : Pages, post : PostAnswers \cup {"unread"}] :
              (e.post = "unread") = (e.page # "login")}

FetchEnvs(c) ==
    {e \in [page : Pages \cup {"unread"}, post : PostAnswers \cup {"unread"},
            dl : DlAnswers \cup {"unread"},
            write : WriteAnswers \cup {"unread"}] :
        /\ [page |-> e.page, post |-> e.post] \in LoginEnvs(c)
        /\ (e.dl = "unread") = (c.none /\ e.post # "ok")
        /\ (e.write = "unread") = (e.dl # "tiff")}

NoFetchEnv == [page |-> "unread", post |-> "unread", dl |-> "unread",
               write |-> "unread"]

Client == \E env \in LoginEnvs(client) :
              Call([op |-> "client", env |-> env], client_property(World, env))

DownloadMissingFile ==
    \E area \in Tiles, res \in Resolutions :
        \E env \in IF in_index(area, entries_property(World, res).r.val)
                   THEN FetchEnvs(client) ELSE {NoFetchEnv} :
            Call([op |-> "download_missing_file", area |-> area,
                  resolution |-> res,
                  output_file_name |-> CachePath(area, res), env |-> env],
                 download_missing_file(World, area, res, CachePath(area, res), env))

NextSrtm == Client \/ DownloadMissingFile

SpecSrtm == InitSrtm /\ [][NextSrtm]_vars

-----------------------------------------------------------------------------
(* SpecWorkers: workers read the client of one SRTM source at the same    *)
(* time; a step is one statement of the client property or of init_client, *)
(* and self._client is read anew by every statement that names it          *)

Workers == 1..MaxWorkers

InitWorkers ==
    /\ args = [op |-> "client", pc |-> [w \in Workers |-> "start"]]
    /\ ret = [w \in Workers |-> Pending]
    /\ NoSource
    /\ gf = NoGetFiles

\* a worker goes on, or ends with an answer
Goto(w, pc, r) ==
    /\ args' = [args EXCEPT !.pc[w] = pc]
    /\ ret' = [ret EXCEPT ![w] = r]
    /\ UNCHANGED <<entries, indexFile, manifest, cache, steps, gf>>

\* line 235: if self._client is None
ClientIsNone(w) ==
    /\ args.pc[w] = "start"
    /\ Goto(w, IF needs_client(client) THEN "create" ELSE "return", Pending)
    /\ UNCHANGED <<client, session, net>>

\* line 213: self._client = httpx.Client()
CreateClient(w) ==
    /\ args.pc[w] = "create"
    /\ session' = session + 1
    /\ client' = ClientOf(session + 1, FALSE)
    /\ Goto(w, "get", Pending)
    /\ UNCHANGED net

\* lines 215-218: the page is fetched over self._client and looked at
GetLoginPage(w) ==
    /\ args.pc[w] = "get"
    /\ net' = [net EXCEPT !.loginGet = @ + 1]
    /\ \E page \in Pages :
           IF is_login_page(page) THEN Goto(w, "post", Pending)
           ELSE Goto(w, "done", Raise("ValueError: Expected login page"))
    /\ UNCHANGED <<client, session>>

\* lines 228-229: the login is posted over self._client
PostLogin(w) ==
    /\ args.pc[w] = "post"
    /\ net' = [net EXCEPT !.loginPost = @ + 1]
    /\ \E post \in PostAnswers :
           IF post = "ok"
           THEN /\ client' = ClientOf(client.id, TRUE)
                /\ Goto(w, "return", Pending)
           ELSE /\ client' = client
                /\ Goto(w, "done", Raise("HTTPStatusError"))
    /\ UNCHANGED session

\* lines 237-239: return self._client
ReturnClient(w) ==
    /\ args.pc[w] = "return"
    /\ Goto(w, "done", Return(client))
    /\ UNCHANGED <<client, session, net>>

NextWorkers ==
    \E w \in Workers :
        \/ ClientIsNone(w)
        \/ CreateClient(w)
        \/ GetLoginPage(w)
        \/ PostLogin(w)
        \/ ReturnClient(w)

SpecWorkers == InitWorkers /\ [][NextWorkers]_vars

-----------------------------------------------------------------------------
(* SourcesPool and get_files *)

None == [none |-> TRUE]

\* the name of a tile file on disk
PathOf(p) == [none |-> FALSE, path |-> p]

\* `if save_filename`
Truthy(v) == ~v.none

\* Pool.available_sources_names(): the nicknames of the registered sources;
\* SRTM is the source of this model
available_sources_names == {<<"s", "r", "t", "m">>}

\* the failures of an acquisition that concern one tile of one source: the
\* tile is not at the source, the answer is no tile, the request failed
AcquisitionFailures == {"FileNotFoundError",
                        "ValueError: Unexpected content type",
                        "HTTPStatusError"}

\* Source.get_file: a cached tile is returned without any request; a tile
\* that is not cached is fetched; a failed acquisition yields None, a login
\* that cannot be made is raised to the caller
Source_get_file(w, area, resolution, env) ==
    IF CachePath(area, resolution) \in DOMAIN w.cache
    THEN Out(w, Return(PathOf(CachePath(area, resolution))))
    ELSE LET d == download_missing_file(w, area, resolution,
                                        CachePath(area, resolution), env)
         IN IF Returned(d.r)
            THEN Out(d.w, Return(PathOf(CachePath(area, resolution))))
            ELSE IF d.r.exc \in AcquisitionFailures
            THEN Out(d.w, Return(None))
            ELSE d

\* SourcesPool.get_file
get_file(w, area, source, env) ==
    IF Len(source) < 5 THEN Out(w, Raise("IndexError"))
    ELSE IF source[5] \notin DigitChars THEN Out(w, Raise("ValueError"))
    ELSE LET fileResolution == DigitVal(source[5])
         IN IF SubSeq(source, 1, 4) \notin available_sources_names
            THEN Out(w, Raise("ValueError: Unknown source type"))
            ELSE Source_get_file(w, area, fileResolution, env)

\* line 252: a file name that is no file name is not added
append_file_unflagged(files, save_filename, check_poly) ==
    IF Truthy(save_filename)
    THEN Append(files, <<save_filename.path, FALSE>>)
    ELSE files

\* lines 252-253: what one answer adds to the files
append_file(files, save_filename, check_poly) ==
    IF Truthy(save_filename)
    THEN Append(files, <<save_filename.path, check_poly>>)
    ELSE files


\* the loop over the sources without its break
next_position_no_break(i, j, found, nsources) ==
    IF j + 1 > nsources THEN <<i + 1, 1>> ELSE <<i, j + 1>>

\* a tile is given up at its first source without a file
next_position_giving_up(i, j, found, nsources) == <<i + 1, 1>>

\* lines 248-257: the tile and the source of the next call, after the call
\* for tile i and source j: the next tile's first source after a file
\* (break) or after the last source (else: continue), the tile's next source
\* otherwise
next_position(i, j, found, nsources) ==
    IF found \/ j + 1 > nsources THEN <<i + 1, 1>> ELSE <<i, j + 1>>

\* lines 248-249: the first call; without sources no tile is asked for
first_position(nprefixes, nsources) ==
    IF nsources = 0 THEN <<nprefixes + 1, 1>> ELSE <<1, 1>>

-----------------------------------------------------------------------------
(* SpecGetFiles: one call of get_files on a fresh pool *)

SourceNames == {<<"s", "r", "t", "m", "1">>, <<"s", "r", "t", "m", "3">>,
                <<"v", "i", "e", "w", "1">>}

\* a list of preferences names a source once
SourceLists ==
    UNION {{s \in [1..n -> SourceNames] :
               \A k, m \in 1..n : s[k] = s[m] => k = m} : n \in 0..MaxSources}

\* a rectangle from (-0.5, -0.5) to (1.5, 1.5), closed
BigRing == <<<<-5, -5>>, <<15, -5>>, <<15, 15>>, <<-5, 15>>, <<-5, -5>>>>

PolygonInputs == {NoPolygons, PolygonsOf(<<BigRing>>)}

\* boxes of one row of tiles, a box of one column of two tiles, and an area
\* string of three fields
AreaInputs ==
    {AreaString(<<0, 0, n * Scale, Scale>>) : n \in 1..MaxTiles}
    \cup {AreaString(<<0, 0, Scale, 2 * Scale>>)}
    \cup {Join(<<DecStr(0), DecStr(0), DecStr(Scale)>>, ":")}

\* the tile files an earlier run left
CacheInputs ==
    {NoCache,
     [p \in {CachePath(make_file_name_prefix(0, 0), 1)} |->
         Payload(get_url_for_tile(1, make_file_name_prefix(0, 0)))]}

InitGetFiles ==
    /\ args \in {[op |-> "get_files", area |-> a, polygons |-> p, corrx |-> 0,
                  corry |-> 0, sources |-> s] :
                    a \in AreaInputs, p \in PolygonInputs, s \in SourceLists}
    /\ ret = Pending
    /\ gf = NoGetFiles
    /\ entries = [r \in Resolutions |-> {}]
    /\ client = NoClient
    /\ cache \in CacheInputs
    /\ net = NoNet
    /\ session = 0
    /\ steps = 0
    /\ SrtmIndexFiles

\* lines 243-246, and the loops when no call is to be made
GetFilesBegin ==
    /\ args.op = "get_files"
    /\ gf.status = "idle"
    /\ LET bbox == calc_bbox(args.area, args.corrx, args.corry)
       IN IF Raised(bbox)
          THEN /\ gf' = [gf EXCEPT !.status = "raised"]
               /\ ret' = bbox
          ELSE LET area_prefixes == make_file_name_prefixes(
                                        bbox.val, args.polygons, args.corrx,
                                        args.corry, FALSE)
                   pos  == first_position(Len(area_prefixes), Len(args.sources))
                   done == pos[1] > Len(area_prefixes)
               IN /\ gf' = [gf EXCEPT
                               !.status = IF done THEN "returned" ELSE "running",
                               !.prefixes = area_prefixes,
                               !.i = pos[1],
                               !.j = pos[2]]
                  /\ ret' = IF done THEN Return(<<>>) ELSE Pending
    /\ UNCHANGED <<args, sourceVars, steps>>

\* the answers the call for a tile and a source can come to read
GetFileEnvs(area, source) ==
    IF /\ SubSeq(source, 1, 4) \in available_sources_names
       /\ CachePath(area, DigitVal(source[5])) \notin DOMAIN cache
       /\ in_index(area, entries_property(World, DigitVal(source[5])).r.val)
    THEN FetchEnvs(client)
    ELSE {NoFetchEnv}

\* lines 250-257: one call of sources_pool.get_file and what the loops do
\* with its answer
GetFile ==
    /\ gf.status = "running"
    /\ LET area       == gf.prefixes[gf.i][1]
           check_poly == gf.prefixes[gf.i][2]
           source     == args.sources[gf.j]
       IN \E env \in GetFileEnvs(area, source) :
          \E out \in {get_file(World, area, source, env)} :
            LET call == [op |-> "get_file", area |-> area, source |-> source,
                         env |-> env]
                made == Append(gf.calls, [tile |-> gf.i, source |-> gf.j,
                                          r |-> out.r])
            IN /\ SetWorld(out.w)
               /\ IF Raised(out.r)
                  THEN /\ gf' = [gf EXCEPT !.status = "raised",
                                           !.calls = made,
                                           !.call = call]
                       /\ ret' = out.r
                  ELSE LET files == append_file(gf.files, out.r.val, check_poly)
                           pos   == next_position(gf.i, gf.j, Truthy(out.r.val),
                                                  Len(args.sources))
                           done  == pos[1] > Len(gf.prefixes)
                       IN /\ gf' = [gf EXCEPT
                                       !.status = IF done THEN "returned"
                                                  ELSE "running",
                                       !.i = pos[1],
                                       !.j = pos[2],
                                       !.files = files,
                                       !.calls = made,
                                       !.call = call]
                          /\ ret' = IF done THEN Return(files) ELSE Pending
    /\ UNCHANGED <<args, steps>>

NextGetFiles == GetFilesBegin \/ GetFile

SpecGetFiles == InitGetFiles /\ [][NextGetFiles]_vars

-----------------------------------------------------------------------------
(* SpecPool: SourcesPool.get_file called with any tile and any source name *)

\* names of a source and a resolution, and names that are none
SourceIds == SourceNames \cup {<<"v", "i", "e">>, <<"v", "i", "e", "w">>,
                               <<"v", "i", "e", "w", "x">>, <<"s", "r", "t", "m", "x">>}

InitPool ==
    /\ args = NoArgs
    /\ ret = Pending
    /\ NoSource
    /\ gf = NoGetFiles

PoolGetFile ==
    \E area \in Tiles, source \in SourceIds :
        \E env \in IF Len(source) >= 5 /\ source[5] \in DigitChars
                   THEN GetFileEnvs(area, source) ELSE {NoFetchEnv} :
        \E out \in {get_file(World, area, source, env)} :
            Call([op |-> "get_file", area |-> area, source |-> source,
                  env |-> env], out)

NextPool == PoolGetFile

SpecPool == InitPool /\ [][NextPool]_vars

-----------------------------------------------------------------------------
(* parse_command_line *)

\* the value of an option that takes a string
Str(s) == [none |-> FALSE, str |-> s]

\* `if opts.area`, `if opts.polygon_file`: None and "" are falsy
is_set(v) == ~v.none /\ v.str # <<>>

\* Pool.available_sources_options(), as far as the tests name them
ALL_SUPPORTED_SOURCES == {<<"s", "r", "t", "m", "1">>, <<"s", "r", "t", "m", "3">>,
                          <<"v", "i", "e", "w", "3">>, <<"a", "l", "o", "s", "1">>}

\* the default of --sources
DefaultDataSources == <<<<"s", "r", "t", "m", "3">>>>

\* type=lambda x: x.lower().split(",")
data_sources_type(x) == Split(Lower(x), ",")

\* s[:5]
FirstFive(s) == SubSeq(s, 1, Min(5, Len(s)))

\* only the first of the data sources is looked at
unknown_sources_first_only(dataSources) ==
    {i \in {1} : FirstFive(dataSources[i]) \notin ALL_SUPPORTED_SOURCES}

\* lines 390-393: the data sources that stop the program
unknown_sources(dataSources) ==
    {i \in 1..Len(dataSources) :
        FirstFive(dataSources[i]) \notin ALL_SUPPORTED_SOURCES}

\* what os.stat and os.path.isfile find at the polygon file's name
FileKinds == {"missing", "directory", "file"}

\* parse_polygons_file, as the test patches it: the bounding box of the
\* polygons and the polygons
parse_polygons_file(name) ==
    [area |-> Str(<<"0", ":", "0", ":", "1", ":", "1">>), polygons |-> PolygonsOf(<<BoxRing>>)]

\* parse_command_line, from the options parse_args has read; kind is what
\* is on disk at the polygon file's name
parse_command_line(o, kind) ==
    LET dataSources == IF o.sources.none THEN DefaultDataSources
                       ELSE data_sources_type(o.sources.str)
        opts == [dataSources |-> dataSources, filenames |-> o.filenames,
                 area |-> o.area, polygon_file |-> o.polygon_file,
                 polygons |-> NoPolygons, downloadOnly |-> o.downloadOnly,
                 disableRdp |-> o.disableRdp, rdpEpsilon |-> o.rdpEpsilon]
        read == IF is_set(opts.polygon_file)
                THEN LET poly == parse_polygons_file(opts.polygon_file.str)
                     IN [opts EXCEPT !.area = poly.area,
                                     !.polygons = poly.polygons]
                ELSE opts
        done == IF read.disableRdp THEN [read EXCEPT !.rdpEpsilon = None]
                ELSE read
    IN IF unknown_sources(dataSources) # {} THEN Raise("SystemExit")
       ELSE IF /\ Len(opts.filenames) = 0
               /\ ~is_set(opts.area)
               /\ ~is_set(opts.polygon_file)
       THEN Raise("SystemExit")
       ELSE IF is_set(opts.polygon_file) /\ kind = "missing"
       THEN Raise("SystemExit")
       ELSE IF is_set(opts.polygon_file) /\ kind # "file"
       THEN Raise("SystemExit")
       ELSE IF /\ ~is_set(opts.polygon_file)
               /\ opts.downloadOnly
               /\ ~is_set(opts.area)
       THEN Raise("SystemExit")
       ELSE Return(<<done, done.filenames>>)

-----------------------------------------------------------------------------
(* SpecCli: parse_command_line over the options that decide its end *)

SourcesOptions ==
    {None, Str(<<"s", "r", "t", "m", "3">>), Str(<<"S", "R", "T", "M", "1", ",", "v", "i", "e", "w", "3">>),
     Str(<<"s", "r", "t", "m", "3", "x">>), Str(<<"s", "r", "t", "m">>),
     Str(<<"s", "r", "t", "m", "3", ",", "x">>), Str(<<>>)}

AreaOptions == {None, Str(<<>>), Str(<<"0", ":", "0", ":", "1", ":", "1">>)}

PolygonOptions == {None, Str(<<>>), Str(<<"p">>)}

InitCli ==
    /\ args \in {[op |-> "parse_command_line", sources |-> src, area |-> a,
                   polygon_file |-> pf, kind |-> k, downloadOnly |-> d,
                   disableRdp |-> r, rdpEpsilon |-> Str(<<"0">>),
                   filenames |-> f] :
                    src \in SourcesOptions, a \in AreaOptions,
                    pf \in PolygonOptions,
                    k \in FileKinds, d \in BOOLEAN, r \in BOOLEAN,
                    f \in {<<>>, <<<<"f">>>>}}
    /\ is_set(args.polygon_file) \/ args.kind = "missing"
    /\ ret = Pending
    /\ NoSource
    /\ gf = NoGetFiles

ParseCommandLine ==
    /\ args.op = "parse_command_line"
    /\ ret = Pending
    /\ ret' = parse_command_line(args, args.kind)
    /\ UNCHANGED <<args, sourceVars, steps, gf>>

NextCli == ParseCommandLine

SpecCli == InitCli /\ [][NextCli]_vars

-----------------------------------------------------------------------------
(* make_osm_filename; a file name is the sequence of its path components  *)

\* os.path.split(os.path.split(srcName)[0])[1]: the directory the file lies
\* in, "" for a file without one
src_name_middle(srcName) ==
    IF Len(srcName) >= 2 THEN srcName[Len(srcName) - 1] ELSE <<>>

\* lines 29-32
src_name_middles(input_files_names) ==
    [i \in 1..Len(input_files_names) |->
        Lower(src_name_middle(input_files_names[i]))]

\* hgt.makeBBoxString(borders).format(prefix), for the box of the tests
makeBBoxString(borders, prefix) ==
    prefix \o <<"l", "o", "n", "0", ".", "0", "0", "_", "1", ".", "0", "0", "l", "a", "t", "0", ".", "0", "0", "_", "1", ".", "0", "0">>

\* the directories of the files, one entry per file
src_tag_of_files(dataSources, srcNameMiddles) ==
    SelectSeq(srcNameMiddles, LAMBDA m : m \in SeqSet(dataSources))

\* line 49: [s for s in opts.dataSources if s in set(srcNameMiddles)]
src_tag(dataSources, srcNameMiddles) ==
    SelectSeq(dataSources, LAMBDA d : d \in SeqSet(srcNameMiddles))

\* lines 33-50: the loop over set(srcNameMiddles), taken in the order
\* `middles`, and its else branch
RECURSIVE osm_name(_, _, _, _)
osm_name(middles, opts, srcNameMiddles, box) ==
    IF middles = <<>>
    THEN IF opts.dataSources = <<>>
         THEN Raise("ValueError: opts.dataSources is not defined")
         ELSE Return(box \o <<"_">>
                     \o Join(src_tag(opts.dataSources, srcNameMiddles), ",")
                     \o <<".", "o", "s", "m">>)
    ELSE IF FirstFive(Lower(middles[1])) \in ALL_SUPPORTED_SOURCES
    THEN osm_name(Tail(middles), opts, srcNameMiddles, box)
    ELSE IF opts.dataSources = <<>>
    THEN Return(box \o <<"_", "l", "o", "c", "a", "l", "-", "s", "o", "u", "r", "c", "e", ".", "o", "s", "m">>)
    ELSE Return(box \o <<".", "o", "s", "m">>)

\* lines 51-56: the extension of the output format
osm_extension(osmName, opts) ==
    IF opts.gzip # 0 THEN osmName \o <<".", "g", "z">>
    ELSE IF opts.pbf THEN osmName \o <<".", "p", "b", "f">>
    ELSE IF opts.o5m THEN SubSeq(osmName, 1, Len(osmName) - 4) \o <<".", "o", "5", "m">>
    ELSE osmName

\* make_osm_filename; `middles` is the order in which set(srcNameMiddles)
\* is iterated
make_osm_filename(borders, opts, input_files_names, middles) ==
    LET prefix == IF is_set(opts.outputPrefix)
                  THEN opts.outputPrefix.str \o <<"_">> ELSE <<>>
        name == osm_name(middles, opts, src_name_middles(input_files_names),
                         makeBBoxString(borders, prefix))
    IN IF Raised(name) THEN name
       ELSE Return(osm_extension(name.val, opts))

-----------------------------------------------------------------------------
(* SpecOsmName: make_osm_filename on files of source directories, of      *)
(* another directory and of none                                           *)

FileNames == {<<<<"h", "g", "t">>, <<"S", "R", "T", "M", "1">>, <<"a">>>>, <<<<"h", "g", "t">>, <<"S", "R", "T", "M", "3">>, <<"b">>>>,
              <<<<"h", "g", "t">>, <<"c", "u", "s", "t", "o", "m">>, <<"c">>>>, <<<<"d">>>>}

FileLists == UNION {[1..n -> FileNames] : n \in 0..MaxFiles}

DataSourcesInputs == UNION {[1..n -> {<<"s", "r", "t", "m", "1">>, <<"s", "r", "t", "m", "3">>}] : n \in 0..2}

\* no format, gzip, pbf, o5m
FormatInputs ==
    {[gzip |-> 0, pbf |-> FALSE, o5m |-> FALSE],
     [gzip |-> 9, pbf |-> FALSE, o5m |-> FALSE],
     [gzip |-> 0, pbf |-> TRUE, o5m |-> FALSE],
     [gzip |-> 0, pbf |-> FALSE, o5m |-> TRUE]}

\* the orders a set can be iterated in
Orders(M) ==
    {q \in [1..Cardinality(M) -> M] : \A i, j \in 1..Cardinality(M) :
                                         q[i] = q[j] => i = j}

InitOsmName ==
    /\ args \in {[op |-> "make_osm_filename", borders |-> <<0, 0, Scale, Scale>>,
                   opts |-> [outputPrefix |-> px, dataSources |-> ds,
                             gzip |-> f.gzip, pbf |-> f.pbf, o5m |-> f.o5m],
                   input_files_names |-> files] :
                    px \in {None, Str(<<"p">>)}, ds \in DataSourcesInputs,
                    f \in FormatInputs, files \in FileLists}
    /\ ret = Pending
    /\ NoSource
    /\ gf = NoGetFiles

MakeOsmFilename ==
    /\ args.op = "make_osm_filename"
    /\ ret = Pending
    /\ \E middles \in Orders(SeqSet(src_name_middles(args.input_files_names))) :
          ret' = make_osm_filename(args.borders, args.opts,
                                   args.input_files_names, middles)
    /\ UNCHANGED <<args, sourceVars, steps, gf>>

NextOsmName == MakeOsmFilename

SpecOsmName == InitOsmName /\ [][NextOsmName]_vars

-----------------------------------------------------------------------------
(* Properties of calc_bbox, under SpecBBox *)

\* C10: for an area string with min <= max on each axis, calc_bbox returns a
\* box with min_lon <= max_lon and min_lat <= max_lat that contains the
\* requested box shifted by the correction offsets.
CalcBboxContainsArea ==
    (/\ args.op = "calc_bbox"
     /\ ret # Pending
     /\ args.box[1] <= args.box[3]
     /\ args.box[2] <= args.box[4])
    => /\ Returned(ret)
       /\ ret.val[1] <= ret.val[3]
       /\ ret.val[2] <= ret.val[4]
       /\ ret.val[1] * Scale <= args.box[1] - args.corrx
       /\ ret.val[2] * Scale <= args.box[2] - args.corry
       /\ ret.val[3] * Scale >= args.box[3] - args.corrx
       /\ ret.val[4] * Scale >= args.box[4] - args.corry

\* "-1.5:-0.5:0.5:1.5" gave (-2, -1, 1, 2)
CalcBboxFractionalArea ==
    /\ args.op = "calc_bbox"
    /\ args.area = <<"-", "1", ".", "5", ":", "-", "0", ".", "5", ":",
                     "0", ".", "5", ":", "1", ".", "5">>
    /\ args.corrx = 0
    /\ args.corry = 0
    /\ Returned(ret)
    /\ ret.val = <<-2, -1, 1, 2>>

\* the greatest whole number of degrees not above n / Scale, and the least
\* not below it
FloorDeg(n) == CHOOSE k \in (-2 * MaxHalf - 2)..(2 * MaxHalf + 2) :
                   k * Scale <= n /\ n < (k + 1) * Scale

CeilDeg(n) == CHOOSE k \in (-2 * MaxHalf - 2)..(2 * MaxHalf + 2) :
                  (k - 1) * Scale < n /\ n <= k * Scale

\* C11: calc_bbox returns, for the area shifted by the correction offsets,
\* the floor of each minimum and the ceiling of each maximum, whatever their
\* sign; a whole coordinate is returned as it is.
CalcBboxFloorsAndCeils ==
    (args.op = "calc_bbox" /\ ret # Pending)
    => /\ Returned(ret)
       /\ ret.val[1] = FloorDeg(args.box[1] - args.corrx)
       /\ ret.val[2] = FloorDeg(args.box[2] - args.corry)
       /\ ret.val[3] = CeilDeg(args.box[3] - args.corrx)
       /\ ret.val[4] = CeilDeg(args.box[4] - args.corry)
       /\ \A i \in 1..4 :
             IsWhole(args.box[i] - (IF i \in {1, 3} THEN args.corrx ELSE args.corry))
             => ret.val[i] * Scale
                  = args.box[i] - (IF i \in {1, 3} THEN args.corrx ELSE args.corry)

\* "-1.5:-1:1:0.5" gave (-2, -1, 1, 1): a negative fraction went down, the
\* whole values stayed, a positive fraction went up
CalcBboxWholeAndFraction ==
    /\ args.op = "calc_bbox"
    /\ args.box = <<-15, -10, 10, 5>>
    /\ args.corrx = 0
    /\ args.corry = 0
    /\ Returned(ret)
    /\ ret.val = <<-2, -1, 1, 1>>

\* C12 as claimed: calc_bbox raises for every area string that is not four
\* colon-separated numbers (fewer fields, more fields, a field that is no
\* number) and returns a box for the others.
CalcBboxNeedsFourNumbers ==
    (args.op = "calc_bbox" /\ ret # Pending)
    => (Returned(ret) <=> /\ Len(args.fields) = 4
                          /\ \A i \in 1..4 : args.fields[i] \in NumberFields)

-----------------------------------------------------------------------------
(* Properties of make_file_name_prefix, under SpecPrefix *)

\* C13: the identifier of a tile is seven characters: S for a negative
\* latitude and N otherwise, two digits that read the latitude's magnitude,
\* W for a negative longitude and E otherwise, three digits that read the
\* longitude's magnitude; so the coordinates are read back from it, and two
\* tiles with one identifier are one tile.
PrefixNamesTheTile ==
    (args.op = "make_file_name_prefix" /\ ret # Pending)
    => /\ Returned(ret)
       /\ Len(ret.val) = 7
       /\ ret.val[1] = (IF args.lat < 0 THEN "S" ELSE "N")
       /\ ret.val[4] = (IF args.lon < 0 THEN "W" ELSE "E")
       /\ \A i \in {2, 3, 5, 6, 7} : ret.val[i] \in DigitChars
       /\ DigitVal(ret.val[2]) * 10 + DigitVal(ret.val[3])
             = (IF ret.val[1] = "S" THEN -args.lat ELSE args.lat)
       /\ DigitVal(ret.val[5]) * 100 + DigitVal(ret.val[6]) * 10
               + DigitVal(ret.val[7])
             = (IF ret.val[4] = "W" THEN -args.lon ELSE args.lon)

\* the tile at 7 degrees west, 45 degrees south is S45W007
PrefixOfSouthWestTile ==
    /\ args.op = "make_file_name_prefix"
    /\ args.lon = -7
    /\ args.lat = -45
    /\ ret = Return(<<"S", "4", "5", "W", "0", "0", "7">>)

-----------------------------------------------------------------------------
(* Properties of make_file_name_prefixes, under SpecPrefixes *)

\* the longitudes of the cells of a box from west to east: from min_lon up to
\* max_lon - 1, going on from 179 to -180 when min_lon > max_lon
CellLons(min_lon, max_lon) ==
    IF min_lon > max_lon
    THEN [i \in 1..(Max(180 - min_lon, 0) + Max(max_lon + 180, 0)) |->
             IF i <= 180 - min_lon THEN min_lon + i - 1
             ELSE -180 + (i - Max(180 - min_lon, 0)) - 1]
    ELSE [i \in 1..(max_lon - min_lon) |-> min_lon + i - 1]

\* C14: without polygons make_file_name_prefixes returns one entry for each
\* cell of the box and no other, flagged FALSE, longitude by longitude from
\* west to east and within a longitude from south to north, the longitudes
\* going over the antimeridian when min_lon > max_lon.
PrefixesAreTheCellsOfTheBox ==
    (args.op = "make_file_name_prefixes" /\ ret # Pending /\ args.polygons.none)
    => LET lons == CellLons(args.bbox[1], args.bbox[3])
           nlat == Max(args.bbox[4] - args.bbox[2], 0)
       IN /\ Returned(ret)
          /\ Len(ret.val) = Len(lons) * nlat
          /\ \A i \in 1..Len(lons) : \A k \in 1..nlat :
                ret.val[(i - 1) * nlat + k]
                  = <<IF args.lowercase
                      THEN Lower(make_file_name_prefix(lons[i], args.bbox[2] + k - 1))
                      ELSE make_file_name_prefix(lons[i], args.bbox[2] + k - 1),
                      FALSE>>

\* the box (178, 0, -178, 1) gave N00E178, N00E179, N00W180, N00W179
PrefixesOverTheAntimeridian ==
    /\ args.op = "make_file_name_prefixes"
    /\ args.bbox = <<178, 0, -178, 1>>
    /\ args.polygons.none
    /\ ~args.lowercase
    /\ ret = Return(<<<<<<"N", "0", "0", "E", "1", "7", "8">>, FALSE>>,
                      <<<<"N", "0", "0", "E", "1", "7", "9">>, FALSE>>,
                      <<<<"N", "0", "0", "W", "1", "8", "0">>, FALSE>>,
                      <<<<"N", "0", "0", "W", "1", "7", "9">>, FALSE>>>>)

\* the name a cell has in the result
NameOf(lon, lat) ==
    IF args.lowercase THEN Lower(make_file_name_prefix(lon, lat))
    ELSE make_file_name_prefix(lon, lat)

\* the cells the two loops go over
BoxCells ==
    LET lons == CellLons(args.bbox[1], args.bbox[3])
    IN {lons[i] : i \in 1..Len(lons)} \X (args.bbox[2]..(args.bbox[4] - 1))

\* C24: a cell of the box whose identifier intersect_tiles returned is in the
\* result flagged TRUE, whatever area_needed says of it; any other cell is in
\* the result exactly when area_needed says it is needed, with the flag
\* area_needed gave.
CrossedCellsAreTakenFlagged ==
    (args.op = "make_file_name_prefixes" /\ ret # Pending)
    => \E crossed \in {intersect_tiles(args.polygons, args.corrx, args.corry)} :
       \E result \in {{ret.val[i] : i \in 1..Len(ret.val)}} :
          \A c \in BoxCells :
             LET flags == {f \in BOOLEAN : <<NameOf(c[1], c[2]), f>> \in result}
                 needed == area_needed(c[2], c[1], args.bbox, args.polygons,
                                       args.corrx, args.corry)
             IN IF make_file_name_prefix(c[1], c[2]) \in crossed
                THEN flags = {TRUE}
                ELSE flags = (IF needed[1] THEN {needed[2]} ELSE {})

\* a cell with no corner inside the polygon, which area_needed drops, holds
\* the polygon and was returned flagged TRUE
CellHoldingThePolygonTaken ==
    /\ args.op = "make_file_name_prefixes"
    /\ Returned(ret)
    /\ ~args.polygons.none
    /\ \E c \in BoxCells :
          /\ make_file_name_prefix(c[1], c[2])
                \in intersect_tiles(args.polygons, args.corrx, args.corry)
          /\ area_needed(c[2], c[1], args.bbox, args.polygons, args.corrx,
                         args.corry) = <<FALSE, FALSE>>
          /\ \E i \in 1..Len(ret.val) : ret.val[i] = <<NameOf(c[1], c[2]), TRUE>>

\* C30: no identifier is twice in the result of make_file_name_prefixes, and
\* every identifier in it is that of a cell of the box, over the antimeridian
\* or not, with polygons or without.
PrefixesAreDistinctCellsOfTheBox ==
    (args.op = "make_file_name_prefixes" /\ ret # Pending)
    => \E names \in {{NameOf(c[1], c[2]) : c \in BoxCells}} :
          /\ \A i \in 1..Len(ret.val) : ret.val[i][1] \in names
          /\ Cardinality({ret.val[i][1] : i \in 1..Len(ret.val)}) = Len(ret.val)

\* a box over the antimeridian and a polygon whose border runs through cells
\* of the box, which were returned, and through tiles outside it, which were
\* not
CrossingsOutsideTheBoxLeftOut ==
    /\ args.op = "make_file_name_prefixes"
    /\ Returned(ret)
    /\ args.bbox[1] > args.bbox[3]
    /\ ~args.polygons.none
    /\ ~args.lowercase
    /\ \E t \in intersect_tiles(args.polygons, args.corrx, args.corry) :
          \E i \in 1..Len(ret.val) : ret.val[i][1] = t
    /\ \E t \in intersect_tiles(args.polygons, args.corrx, args.corry) :
          \A i \in 1..Len(ret.val) : ret.val[i][1] # t

-----------------------------------------------------------------------------
(* Properties of intersect_tiles, under SpecIntersect *)

\* the parameters t of the points p + t (q - p) of one coordinate that lie
\* strictly between lo and hi: t > lower and t < upper, as fractions with
\* positive denominators; d is q - p in that coordinate and is not 0
LowerT(p, d, lo, hi) == IF d > 0 THEN <<lo - p, d>> ELSE <<p - hi, -d>>

UpperT(p, d, lo, hi) == IF d > 0 THEN <<hi - p, d>> ELSE <<p - lo, -d>>

\* the segment from p to q has a point strictly inside the tile whose south
\* west corner is (X, Y)
PassesThrough(p, q, X, Y) ==
    LET dx == q[1] - p[1]
        dy == q[2] - p[2]
        lowers == {<<0, 1>>}
                  \cup (IF dx = 0 THEN {} ELSE {LowerT(p[1], dx, X * Scale, (X + 1) * Scale)})
                  \cup (IF dy = 0 THEN {} ELSE {LowerT(p[2], dy, Y * Scale, (Y + 1) * Scale)})
        uppers == {<<1, 1>>}
                  \cup (IF dx = 0 THEN {} ELSE {UpperT(p[1], dx, X * Scale, (X + 1) * Scale)})
                  \cup (IF dy = 0 THEN {} ELSE {UpperT(p[2], dy, Y * Scale, (Y + 1) * Scale)})
    IN /\ dx = 0 => X * Scale < p[1] /\ p[1] < (X + 1) * Scale
       /\ dy = 0 => Y * Scale < p[2] /\ p[2] < (Y + 1) * Scale
       /\ \A l \in lowers : \A u \in uppers :
             IF l = <<0, 1>> /\ u = <<1, 1>> THEN TRUE
             ELSE IF l = <<0, 1>> THEN 0 < u[1]
             ELSE IF u = <<1, 1>> THEN l[1] < l[2]
             ELSE l[1] * u[2] < u[1] * l[2]

\* the vertices of the ring given, shifted by the offsets
ShiftedRing ==
    LET ring == args.polygons.rings[1]
    IN [i \in 1..Len(ring) |-> <<ring[i][1] - args.corrx, ring[i][2] - args.corry>>]

\* C15 as claimed: every tile that an edge of the ring passes through the
\* inside of is among the tiles intersect_tiles returns.
EveryCutTileIsReturned ==
    (args.op = "intersect_tiles" /\ ret # Pending)
    => \A i \in 2..Len(ShiftedRing) : \A X \in -1..2 : \A Y \in -1..2 :
          PassesThrough(ShiftedRing[i - 1], ShiftedRing[i], X, Y)
          => make_file_name_prefix(X, Y) \in ret.val

\* the whole number of degrees at or next below num / den
FloorOf(num, den) ==
    LET n == IF den > 0 THEN num ELSE -num
        d == IF den > 0 THEN den ELSE -den
    IN CHOOSE k \in (-Scale)..Scale : k * d <= n /\ n < (k + 1) * d

\* the two ends of a ring that is one edge, moved by the offsets
EdgeStart == <<args.polygons.rings[1][1][1] - args.corrx,
               args.polygons.rings[1][1][2] - args.corry>>

EdgeEnd == <<args.polygons.rings[1][2][1] - args.corrx,
             args.polygons.rings[1][2][2] - args.corry>>

IsOneEdge ==
    /\ args.op = "intersect_tiles"
    /\ ret # Pending
    /\ Len(args.polygons.rings[1]) = 2

\* the whole degrees strictly between two coordinates
StrictlyBetween(a, b) ==
    {k \in (-Scale)..Scale : Min(a, b) < k * Scale /\ k * Scale < Max(a, b)}

\* C25: an edge that is neither vertical nor horizontal gives the tile of its
\* end vertex, for every whole longitude strictly between its ends the tiles
\* left and right of its crossing point, for every whole latitude strictly
\* between its ends the tiles below and above its crossing point, and no
\* other tile: none for a grid line it only touches with an end.
SlantedEdgeGivesItsCrossings ==
    (/\ IsOneEdge
     /\ EdgeStart[1] # EdgeEnd[1]
     /\ EdgeStart[2] # EdgeEnd[2])
    => LET p == EdgeStart
           q == EdgeEnd
           dx == q[1] - p[1]
           dy == q[2] - p[2]
           YAt(X) == FloorOf(p[2] * dx + dy * (X * Scale - p[1]), dx * Scale)
           XAt(Y) == FloorOf(p[1] * dy + dx * (Y * Scale - p[2]), dy * Scale)
           tiles ==
               {<<FloorOf(q[1], Scale), FloorOf(q[2], Scale)>>}
               \cup UNION {{<<X - 1, YAt(X)>>, <<X, YAt(X)>>} :
                               X \in StrictlyBetween(p[1], q[1])}
               \cup UNION {{<<XAt(Y), Y - 1>>, <<XAt(Y), Y>>} :
                               Y \in StrictlyBetween(p[2], q[2])}
       IN ret.val = {make_file_name_prefix(t[1], t[2]) : t \in tiles}

\* the whole degrees from one whole coordinate to another, both included
FromTo(a, b) == (Min(a, b) \div Scale)..(Max(a, b) \div Scale)

\* C26: a horizontal edge between two different whole longitudes, in either
\* direction, gives the tiles of its row of latitude at every longitude from
\* the lower to the upper end, both included, and no other; a vertical edge
\* between two whole latitudes gives the tiles of its column likewise.
StraightEdgeGivesItsRow ==
    /\ (/\ IsOneEdge
        /\ EdgeStart[2] = EdgeEnd[2]
        /\ EdgeStart[1] # EdgeEnd[1]
        /\ IsWhole(EdgeStart[1])
        /\ IsWhole(EdgeEnd[1]))
       => ret.val = {make_file_name_prefix(X, FloorOf(EdgeEnd[2], Scale)) :
                        X \in FromTo(EdgeStart[1], EdgeEnd[1])}
    /\ (/\ IsOneEdge
        /\ EdgeStart[1] = EdgeEnd[1]
        /\ EdgeStart[2] # EdgeEnd[2]
        /\ IsWhole(EdgeStart[2])
        /\ IsWhole(EdgeEnd[2]))
       => ret.val = {make_file_name_prefix(FloorOf(EdgeEnd[1], Scale), Y) :
                        Y \in FromTo(EdgeStart[2], EdgeEnd[2])}

-----------------------------------------------------------------------------
(* Properties of area_needed, under SpecAreaNeeded *)

\* the corners of the tile asked about, shifted by the offsets
TileCorners ==
    {<<args.lon * Scale + args.corrx + dx, args.lat * Scale + args.corry + dy>> :
        dx \in {0, Scale}, dy \in {0, Scale}}

\* the corners that the point-in-polygon test finds inside some ring
CornersInside ==
    {c \in TileCorners :
        \E p \in 1..Len(args.polygons.rings) :
            contains_point(args.polygons.rings[p], c[1], c[2])}

TileIsBbox == args.bbox = <<args.lon, args.lat, args.lon + 1, args.lat + 1>>

\* C16: with polygons given and a tile that is not the whole bounding box,
\* area_needed answers by the corners of the tile: each of the four inside
\* some ring gives (True, False), none inside any ring gives (False, False),
\* anything between gives (True, True).
CornersDecideTheTile ==
    (/\ args.op = "area_needed"
     /\ ret # Pending
     /\ ~args.polygons.none
     /\ ~TileIsBbox)
    => ret = Return(IF CornersInside = TileCorners THEN <<TRUE, FALSE>>
                    ELSE IF CornersInside = {} THEN <<FALSE, FALSE>>
                    ELSE <<TRUE, TRUE>>)

\* two of the corners of a tile were inside a ring, and the tile is to be
\* checked
TileHalfInside ==
    /\ args.op = "area_needed"
    /\ ~args.polygons.none
    /\ ~TileIsBbox
    /\ Cardinality(CornersInside) = 2
    /\ ret = Return(<<TRUE, TRUE>>)

\* the rectangle of a ring and the tile have no point in common
RingApart(ring) ==
    LET x0 == args.lon * Scale + args.corrx
        y0 == args.lat * Scale + args.corry
    IN \/ ring[3][1] < x0
       \/ ring[1][1] > x0 + Scale
       \/ ring[3][2] < y0
       \/ ring[1][2] > y0 + Scale

\* C17: with polygons given, a tile that is the whole bounding box is needed
\* and to be checked, wherever its corners are; a tile that is not, and that
\* has no point in common with any of the polygons, is not needed.
WholeBoxIsTakenApartIsDropped ==
    (/\ args.op = "area_needed"
     /\ ret # Pending
     /\ ~args.polygons.none)
    => /\ TileIsBbox => ret = Return(<<TRUE, TRUE>>)
       /\ (/\ ~TileIsBbox
           /\ \A p \in 1..Len(args.polygons.rings) :
                  RingApart(args.polygons.rings[p]))
          => ret = Return(<<FALSE, FALSE>>)

\* a tile that is the whole bounding box, with every corner inside a ring,
\* is to be checked all the same
WholeBoxInsideARing ==
    /\ args.op = "area_needed"
    /\ ~args.polygons.none
    /\ TileIsBbox
    /\ CornersInside = TileCorners
    /\ ret = Return(<<TRUE, TRUE>>)

-----------------------------------------------------------------------------
(* Properties of parse_command_line, under SpecCli *)

\* the data sources asked for
Requested ==
    IF args.sources.none THEN DefaultDataSources
    ELSE data_sources_type(args.sources.str)

\* an option was given a value
IsGiven(v) == ~v.none /\ Len(v.str) > 0

\* C20: parse_command_line returns only if the first five characters of every
\* data source asked for name a supported source, a file name, an area or a
\* polygon file was given, a polygon file that was given is a regular file,
\* and --download-only comes with an area or a polygon file; when one of
\* these fails the process exits.
ReturnsOnlyFromAValidCommandLine ==
    (args.op = "parse_command_line" /\ ret # Pending)
    => LET valid ==
               /\ \A i \in 1..Len(Requested) :
                      \E n \in ALL_SUPPORTED_SOURCES :
                          /\ Len(Requested[i]) >= Len(n)
                          /\ \A k \in 1..Len(n) : Requested[i][k] = n[k]
               /\ \/ args.filenames # <<>>
                  \/ IsGiven(args.area)
                  \/ IsGiven(args.polygon_file)
               /\ IsGiven(args.polygon_file) => args.kind = "file"
               /\ args.downloadOnly =>
                      IsGiven(args.area) \/ IsGiven(args.polygon_file)
       IN /\ Returned(ret) => valid
          /\ ~valid => ret = Raise("SystemExit")

\* a command line with --download-only, a polygon file and data sources,
\* one of them longer than a source's name, was accepted
DownloadOnlyWithPolygonAccepted ==
    /\ args.op = "parse_command_line"
    /\ Returned(ret)
    /\ args.downloadOnly
    /\ ~IsGiven(args.area)
    /\ IsGiven(args.polygon_file)
    /\ ~args.sources.none
    /\ \E i \in 1..Len(Requested) : Len(Requested[i]) > 5
    /\ ret.val[1].area = parse_polygons_file(args.polygon_file.str).area

-----------------------------------------------------------------------------
(* Properties of make_osm_filename, under SpecOsmName *)

\* the directories of a list of files, in lower case
DirsOf(files) ==
    {Lower(IF Len(files[i]) >= 2 THEN files[i][Len(files[i]) - 1] ELSE <<>>) :
        i \in 1..Len(files)}

\* the name with a source tag, for the format asked for
TaggedName(tag) ==
    (IF is_set(args.opts.outputPrefix) THEN args.opts.outputPrefix.str \o <<"_">>
     ELSE <<>>)
    \o <<"l", "o", "n", "0", ".", "0", "0", "_", "1", ".", "0", "0", "l", "a", "t", "0", ".", "0", "0", "_", "1", ".", "0", "0">> \o <<"_">> \o Join(tag, ",")
    \o (IF args.opts.gzip # 0 THEN <<".", "o", "s", "m", ".", "g", "z">>
        ELSE IF args.opts.pbf THEN <<".", "o", "s", "m", ".", "p", "b", "f">>
        ELSE IF args.opts.o5m THEN <<".", "o", "5", "m">>
        ELSE <<".", "o", "s", "m">>)

\* the data sources that are among the directories, each at its first place
\* in dataSources only
RECURSIVE Once(_, _)
Once(dataSources, dirs) ==
    IF dataSources = <<>> THEN <<>>
    ELSE LET d == dataSources[Len(dataSources)]
             before == SubSeq(dataSources, 1, Len(dataSources) - 1)
         IN IF d \in dirs /\ d \notin SeqSet(before)
            THEN Append(Once(before, dirs), d)
            ELSE Once(before, dirs)

AllDirsAreSources ==
    /\ args.op = "make_osm_filename"
    /\ ret # Pending
    /\ args.opts.dataSources # <<>>
    /\ \A d \in DirsOf(args.input_files_names) :
          \E n \in ALL_SUPPORTED_SOURCES :
              Len(d) >= Len(n) /\ \A k \in 1..Len(n) : d[k] = n[k]

\* any list of files with the directories of the files given, iterated in
\* any order, gives the name that was returned
NameOfTheDirsOnly ==
    (args.op = "make_osm_filename" /\ ret # Pending)
    => \E dirs \in {DirsOf(args.input_files_names)} :
          \A files \in FileLists :
             DirsOf(files) = dirs
             => \A middles \in Orders(dirs) :
                   make_osm_filename(args.borders, args.opts, files, middles) = ret

\* C28 as claimed: the name depends on the set of the files' directories
\* only, and when every directory names a supported source the source tag is
\* the data sources found among the directories, in the order of
\* dataSources, each once.
OsmNameTagsEachSourceOnce ==
    /\ NameOfTheDirsOnly
    /\ AllDirsAreSources
       => ret = Return(TaggedName(Once(args.opts.dataSources,
                                       DirsOf(args.input_files_names))))

\* C28: the name depends on the set of the files' directories only, not on
\* the order of the files or on how many lie in a directory; when every
\* directory names a supported source the source tag is dataSources without
\* the entries that are no directory of a file, in the order of dataSources,
\* an entry that dataSources holds twice being listed twice.
OsmNameTagsDataSourcesFound ==
    /\ NameOfTheDirsOnly
    /\ AllDirsAreSources
       => ret = Return(TaggedName(
                  SelectSeq(args.opts.dataSources,
                            LAMBDA d : d \in DirsOf(args.input_files_names))))

\* two files of one source directory and data sources naming that source
\* after another gave the tag of that source, once
TwoFilesOfOneSource ==
    /\ args.op = "make_osm_filename"
    /\ args.input_files_names = <<<<<<"h", "g", "t">>, <<"S", "R", "T", "M", "3">>, <<"b">>>>, <<<<"h", "g", "t">>, <<"S", "R", "T", "M", "3">>, <<"b">>>>>>
    /\ args.opts.dataSources = <<<<"s", "r", "t", "m", "1">>, <<"s", "r", "t", "m", "3">>>>
    /\ ~is_set(args.opts.outputPrefix)
    /\ ret = Return(<<"l", "o", "n", "0", ".", "0", "0", "_", "1", ".", "0", "0", "l", "a", "t", "0", ".", "0", "0", "_", "1", ".", "0", "0", "_", "s", "r", "t", "m", "3", ".", "o", "s", "m">>)

-----------------------------------------------------------------------------
(* Properties of SrtmIndex, under SpecIndex *)

IsCall(op) == steps' = steps + 1 /\ args'.op = op

\* the lines of an index file that are no comment
DataLines(file) ==
    LET lines == FileLines(file.text)
    IN {lines[i] : i \in {j \in 1..Len(lines) :
                             lines[j] = <<>> \/ lines[j][1] # "#"}}

\* C18: after save, the index file's first line is the header
\* "# SRTM<resolution>v3.0 index file, VERSION=2" and the lines after it are
\* the entries of the index, each once, one per line, in sorted order.
SavedFileListsTheEntries ==
    (args.op = "save" /\ ret = Return(<<>>))
    => LET res == args.resolution
           lines == FileLines(indexFile[res].text)
       IN /\ indexFile[res].exists
          /\ Len(lines) = 1 + Cardinality(entries[res])
          /\ lines[1] = IndexHeader(res)
          /\ {lines[i] : i \in 2..Len(lines)} = entries[res]
          /\ \A i \in 2..(Len(lines) - 1) : StrLess(lines[i], lines[i + 1])

\* C29: the file that save wrote, loaded into a fresh index of the same
\* resolution, gives exactly the entries that were saved, the empty set
\* included.
SavedIndexLoadsBack ==
    (args.op = "save" /\ ret = Return(<<>>))
    => \E res \in {args.resolution} :
          \E out \in {load([World EXCEPT !.entries[res] = {}], res)} :
             /\ out.r = Return(<<>>)
             /\ out.w.entries[res] = entries[res]

\* C7: when the entries of an empty index are read, an existing index file is
\* loaded and the coverage map is not fetched; without the file the index is
\* the fetched coverage map's and is written to the file in the same call.
EntriesLoadsOrRebuilds ==
    [][(IsCall("entries") /\ entries[args'.resolution] = {}) =>
          LET res == args'.resolution
          IN IF indexFile[res].exists
             THEN /\ net'.manifestGet = net.manifestGet
                  /\ entries'[res] = DataLines(indexFile[res])
                  /\ indexFile' = indexFile
             ELSE /\ net'.manifestGet = net.manifestGet + 1
                  /\ entries'[res] = manifest[res]
                  /\ indexFile'[res].exists
                  /\ DataLines(indexFile'[res]) \ {<<>>} = entries'[res]]_vars

\* the first call read the entries, found no file and rebuilt a non-empty index
EntriesRebuiltAndSaved ==
    /\ steps = 1
    /\ args.op = "entries"
    /\ net.manifestGet = 1
    /\ entries[args.resolution] # {}
    /\ indexFile[args.resolution].exists

\* C21: once an access to the entries of an index has returned, the next
\* access to the entries of that index neither opens the index file, nor
\* fetches the coverage map, nor changes the set of entries.
IndexBuiltOnce ==
    [][(/\ args.op = "entries"
        /\ Returned(ret)
        /\ IsCall("entries")
        /\ args'.resolution = args.resolution)
       => /\ net'.indexRead = net.indexRead
          /\ net'.manifestGet = net.manifestGet
          /\ entries' = entries]_vars

\* C8 as claimed: no call removes a tile identifier from an index.
IndexNeverShrinks ==
    [][\A r \in Resolutions : entries[r] \subseteq entries'[r]]_vars

\* C8: load, save and reading the entries remove no tile identifier; a call of
\* init_from_web leaves exactly the tiles of the coverage map.
IndexShrinksOnlyByRebuild ==
    [][/\ (steps' = steps + 1 /\ args'.op # "init_from_web")
            => \A r \in Resolutions : entries[r] \subseteq entries'[r]
       /\ IsCall("init_from_web")
            => entries'[args'.resolution] = manifest[args'.resolution]]_vars

\* an index rebuilt from the web was read again and still holds its tiles
EntriesReadAfterRebuild ==
    /\ steps >= 2
    /\ args.op = "entries"
    /\ net.manifestGet >= 1
    /\ entries[args.resolution] # {}
    /\ entries[args.resolution] = manifest[args.resolution]

-----------------------------------------------------------------------------
(* Properties of SRTM, under SpecSrtm *)

LoginsUnchanged ==
    /\ net'.loginGet = net.loginGet
    /\ net'.loginPost = net.loginPost
    /\ session' = session
    /\ client' = client

\* C19: at any time, after a fetch that failed at any point as well, a file
\* at a tile's cache path holds the whole payload of that tile's download.
CacheHoldsWholeTiles ==
    \A p \in DOMAIN cache :
        cache[p] = Payload(get_url_for_tile(p.resolution, p.area))

\* C22: no tile is requested over a client whose login did not complete, and
\* the client property never hands out such a client.
DownloadsAreLoggedIn ==
    /\ net.dlUnauth = 0
    /\ (args.op = "client" /\ Returned(ret)) => ret.val.loggedIn

\* C3: a fetch of a tile that is not cached and that the index of the
\* resolution does not hold raises FileNotFoundError, and neither logs in nor
\* requests the tile.
IndexMissIsNotFound ==
    [][(/\ IsCall("download_missing_file")
        /\ args'.output_file_name \notin DOMAIN cache
        /\ args'.area \notin entries'[args'.resolution])
       => /\ ret'.exc = "FileNotFoundError"
          /\ LoginsUnchanged
          /\ net'.download = net.download
          /\ cache' = cache]_vars

\* a tile missing from a non-empty index was asked for
IndexMissHappened ==
    /\ args.op = "download_missing_file"
    /\ entries[args.resolution] # {}
    /\ args.area \notin entries[args.resolution]
    /\ ret.exc = "FileNotFoundError"
    /\ net.loginGet = 0

\* C4 as claimed: an answer of another content type than the tile's raises
\* FileNotFoundError when its body is the "Invalid scene or product" JSON,
\* and ValueError for any other body.
MismatchDecidedByBody ==
    [][(/\ IsCall("download_missing_file")
        /\ net'.download = net.download + 1
        /\ args'.env.dl \in {"invalid_scene_json", "other_body"})
       => ret'.exc = (IF args'.env.dl = "invalid_scene_json"
                      THEN "FileNotFoundError"
                      ELSE "ValueError: Unexpected content type")]_vars

\* C5: a login that does not end on the login page raises ValueError
\* "Expected login page", and posts no credentials.
WrongPageStopsLogin ==
    [][(/\ steps' = steps + 1
        /\ net'.loginGet = net.loginGet + 1
        /\ args'.env.page # "login")
       => /\ ret'.exc = "ValueError: Expected login page"
          /\ net'.loginPost = net.loginPost]_vars

\* a login ended on another page
WrongPageHappened ==
    /\ args.op \in {"client", "download_missing_file"}
    /\ args.env.page = "other"
    /\ net.loginGet = 1
    /\ ret.exc = "ValueError: Expected login page"

\* C6: the login is posted at most once, every tile is requested over one
\* and the same client, and once a login has succeeded the client is kept
\* and no further login request is made.
SessionIsReused ==
    /\ [](net.loginPost <= 1 /\ Cardinality(net.dlSessions) <= 1)
    /\ [][(~client.none /\ client.loggedIn)
            => /\ LoginsUnchanged
               /\ net'.dlSessions \subseteq {client.id}]_vars

\* two tiles were requested after one login
TwoDownloadsOneLogin ==
    /\ ~client.none
    /\ client.loggedIn
    /\ net.download >= 2
    /\ net.loginPost = 1
    /\ net.dlSessions = {client.id}

-----------------------------------------------------------------------------
(* Properties of the client read by several workers, under SpecWorkers *)

\* C23: when workers read the client of a source that has none yet, at most
\* one of them is logging in at a time, one login is submitted at most, and
\* the workers that get a client get the same one.
LoginIsExclusive ==
    /\ Cardinality({w \in Workers : args.pc[w] \in {"create", "get", "post"}}) <= 1
    /\ net.loginPost <= 1
    /\ \A v, w \in Workers :
           (Returned(ret[v]) /\ Returned(ret[w])) => ret[v].val.id = ret[w].val.id

-----------------------------------------------------------------------------
(* Properties of SourcesPool.get_file, under SpecPool *)

\* source[0:4]
Nickname(source) == SubSeq(source, 1, Min(4, Len(source)))

\* C27: get_file hands the tile to the source named by the first four
\* characters of the source name, with the resolution the fifth character
\* reads as, and answers what that source answers; when the first four
\* characters name no registered source, it raises ValueError 'Unknown
\* source type' and leaves every source alone.
GetFileGoesToTheNamedSource ==
    [][IsCall("get_file") =>
          IF Nickname(args'.source) \in available_sources_names
          THEN (Len(args'.source) >= 5 /\ args'.source[5] \in DigitChars)
               => \E out \in {Source_get_file(World, args'.area,
                                              DigitVal(args'.source[5]),
                                              args'.env)} :
                     /\ ret' = out.r
                     /\ entries' = out.w.entries
                     /\ cache' = out.w.cache
                     /\ net' = out.w.net
                     /\ client' = out.w.client
          ELSE /\ ret' = Raise("ValueError: Unknown source type")
               /\ UNCHANGED sourceVars]_vars

-----------------------------------------------------------------------------
(* Properties of get_files, under SpecGetFiles *)

\* the answer of a call is a file name
IsTruthy(r) == Returned(r) /\ Truthy(r.val)

\* the positions in the calls made of the calls for tile t
CallsFor(t) == {k \in 1..Len(gf.calls) : gf.calls[k].tile = t}

TruthyCalls == SelectSeq(gf.calls, LAMBDA c : IsTruthy(c.r))

\* C1: for every tile the sources are asked in the order of the caller's
\* list, the n-th call for a tile going to the n-th source; no source is
\* asked for a tile after one returned a file name; the file names of the
\* result are those returned, in the order returned; and a tile without a
\* file name has been asked of every source when get_files returns.
SourcesAskedInOrder ==
    /\ \A k \in 1..Len(gf.calls) :
          /\ gf.calls[k].source =
                 Cardinality({m \in CallsFor(gf.calls[k].tile) : m < k}) + 1
          /\ \A m \in 1..(k - 1) :
                /\ gf.calls[m].tile <= gf.calls[k].tile
                /\ gf.calls[m].tile = gf.calls[k].tile => ~IsTruthy(gf.calls[m].r)
    /\ [n \in 1..Len(gf.files) |-> gf.files[n][1]]
           = [n \in 1..Len(TruthyCalls) |-> TruthyCalls[n].r.val.path]
    /\ gf.status = "returned" =>
          \A t \in 1..Len(gf.prefixes) :
              \/ \E k \in CallsFor(t) : IsTruthy(gf.calls[k].r)
              \/ Cardinality(CallsFor(t)) = Len(args.sources)

\* of two sources the first had no file for the first tile, the second had,
\* and the first had the second tile
SecondSourceForOneTile ==
    /\ gf.status = "returned"
    /\ Len(args.sources) = 2
    /\ Len(gf.calls) = 3
    /\ <<gf.calls[1].tile, gf.calls[1].source>> = <<1, 1>>
    /\ gf.calls[1].r = Return(None)
    /\ <<gf.calls[2].tile, gf.calls[2].source>> = <<1, 2>>
    /\ IsTruthy(gf.calls[2].r)
    /\ <<gf.calls[3].tile, gf.calls[3].source>> = <<2, 1>>
    /\ IsTruthy(gf.calls[3].r)
    /\ Len(gf.files) = 2

\* the entries of the tiles from tile t on for which a call returned a file
\* name: the first such file name and the tile's flag
RECURSIVE ResolvedFrom(_)
ResolvedFrom(t) ==
    IF t > Len(gf.prefixes) THEN <<>>
    ELSE LET found == {k \in CallsFor(t) : IsTruthy(gf.calls[k].r)}
             first == CHOOSE k \in found : \A m \in found : k <= m
         IN (IF found = {} THEN <<>>
             ELSE <<<<gf.calls[first].r.val.path, gf.prefixes[t][2]>>>>)
            \o ResolvedFrom(t + 1)

\* C2: what get_files returns is, in the order of the tiles of
\* make_file_name_prefixes, one entry for each tile some source returned a
\* file name for, with the tile's flag, and nothing for the other tiles; it
\* returns the empty list without sources; and it raises only what calc_bbox
\* or a call raised, never because a tile has no file.
FilesAreResolvedTiles ==
    /\ gf.status = "returned" =>
          /\ ret = Return(gf.files)
          /\ gf.files = ResolvedFrom(1)
          /\ args.sources = <<>> => gf.files = <<>> /\ gf.calls = <<>>
    /\ gf.status = "raised" =>
          IF gf.calls = <<>>
          THEN ret = calc_bbox(args.area, args.corrx, args.corry) /\ Raised(ret)
          ELSE ret = gf.calls[Len(gf.calls)].r /\ Raised(ret)

\* of two tiles in a polygon only the second, on the polygon's edge, has a file
UnresolvedTileOmitted ==
    /\ gf.status = "returned"
    /\ ~args.polygons.none
    /\ Len(gf.prefixes) = 2
    /\ args.sources # <<>>
    /\ \A k \in CallsFor(1) : gf.calls[k].r = Return(None)
    /\ Len(gf.files) = 1
    /\ gf.files[1][2] = TRUE
    /\ gf.prefixes[1][2] = FALSE

\* the call just made asked for the tile and got no tile: the answer was of
\* another content type or an HTTP error, or the index does not hold the tile
AcquisitionFailed ==
    /\ gf'.call.op = "get_file"
    /\ Len(gf'.calls) = Len(gf.calls) + 1
    /\ SubSeq(gf'.call.source, 1, 4) \in available_sources_names
    /\ CachePath(gf'.call.area, DigitVal(gf'.call.source[5])) \notin DOMAIN cache
    /\ \/ /\ net'.download = net.download + 1
          /\ gf'.call.env.dl \in {"invalid_scene_json", "other_body", "httperror"}
       \/ ~in_index(gf'.call.area, entries'[DigitVal(gf'.call.source[5])])

=============================================================================
